---- MODULE Spec2Model ----
(***************************************************************************)
(* Approval-gated execution state machine and policy gate of the ACL RAG   *)
(* helpdesk copilot (src/src/run.py, src/src/github_bot.py,                *)
(* src/src/audit.py).                                                      *)
(*                                                                         *)
(* The issue tracker is the shared state: the issue's labels, assignees    *)
(* and its append-only comment list.  Every tracker call of an execute     *)
(* stage run is one atomic step of that run, may raise, and may interleave *)
(* with the steps of another delivery of the same webhook and with users   *)
(* posting comments.                                                       *)
(***************************************************************************)
EXTENDS Integers, Sequences, FiniteSets, TLC

\* ------------------------------------------------------------------ bounds
MaxEnvComments == 2   \* comments users post in one behaviour

\* The execute webhook is delivered twice in a behaviour.  Procs are the slots
\* a run of the execute stage occupies: the second one is taken when a
\* delivery arrives while a run is in flight.
Procs == {"d1", "d2"}

\* ------------------------------------------------- JSON values of a struct
\* A JSON value is a tagged record; a key absent from the object is JMissing.
JStr(s) == [t |-> "str", v |-> s]
JTrue == [t |-> "bool", v |-> "true"]
JFalse == [t |-> "bool", v |-> "false"]
JNull == [t |-> "null", v |-> ""]
JMissing == [t |-> "missing", v |-> ""]
JList(items) == [t |-> "list", items |-> items]
JNoList == [t |-> "missing", items |-> <<>>]

\* dict.get(key): a missing key reads as None
Get(j) == IF j.t = "missing" THEN JNull ELSE j

\* Python truth value of a JSON scalar
Truthy(j) ==
  CASE j.t = "bool" -> j.v = "true"
    [] j.t = "str" -> j.v # ""
    [] OTHER -> FALSE

\* `x is False`
IsFalse(j) == j.t = "bool" /\ j.v = "false"

\* The text under "### Proposed actions (struct)" of a comment body:
\*   kind "absent"  - no heading or no fenced block
\*   kind "badjson" - the block is not JSON
\*   kind "notdict" - the block is JSON but not an object
\*   kind "dict"    - a JSON object with the fields below
Block(kind, risk, needs, role, labels, assignees) ==
  [kind |-> kind, risk_level |-> risk, needs_approval |-> needs,
   approval_role_required |-> role, labels_to_add |-> labels,
   assignees |-> assignees]

NoBlock == Block("absent", JMissing, JMissing, JMissing, JNoList, JNoList)
None == Block("None", JMissing, JMissing, JMissing, JNoList, JNoList)

\* ------------------------------------------------------------ label strings
StatusExecuted == "status:executed"
StatusPending == "status:pending-approval"
StatusTriaged == "status:triaged"

\* str(name).startswith("status:") over the labels of the model
StartsWithStatus(lb) == lb \in {StatusExecuted, StatusPending, StatusTriaged}

SeqToSet(s) == {s[i] : i \in 1..Len(s)}

\* --------------------------------------------------------- comment bodies
\* A body is a sequence of text tokens plus the struct block it embeds.
PlanTitlePending == "Proposed Plan (PENDING APPROVAL)"
PlanTitleTriaged == "Proposed Plan (TRIAGED)"

_plan_title(needs_approval) ==
  IF needs_approval THEN PlanTitlePending ELSE PlanTitleTriaged

Body(toks, block) == [toks |-> toks, block |-> block]

IsSpace(tok) == tok \in {" ", "\n"}

\* str.upper() over the tokens of the model (re.I)
Upper(tok) == IF tok \in {"approve", "Approve"} THEN "APPROVE" ELSE tok

\* "Proposed Plan (PENDING APPROVAL)" in body or "Proposed Plan (TRIAGED)" in body
HasPlanMarker(body) ==
  \E i \in 1..Len(body.toks) : body.toks[i] \in {PlanTitlePending, PlanTitleTriaged}

RECURSIVE LStrip(_)
LStrip(toks) ==
  IF toks # <<>> /\ IsSpace(Head(toks)) THEN LStrip(Tail(toks)) ELSE toks

RECURSIVE RStrip(_)
RStrip(toks) ==
  IF toks # <<>> /\ IsSpace(toks[Len(toks)])
  THEN RStrip(SubSeq(toks, 1, Len(toks) - 1))
  ELSE toks

\* variant: re.search - the word APPROVE anywhere in the body
ApproveAnywhereInBody(body) ==
  /\ body.block.kind = "absent"
  /\ \E k \in 1..Len(body.toks) : Upper(body.toks[k]) = "APPROVE"

\* re.match(r"^\s*APPROVE\s*$", body, flags=re.I)
IsApprove(body) ==
  /\ body.block.kind = "absent"
  /\ LET core == RStrip(LStrip(body.toks))
     IN Len(core) = 1 /\ Upper(core[1]) = "APPROVE"

\* ------------------------------------------------------------ plan parsing
\* run.py _parse_proposed_plan_struct_from_comment: None unless the block is
\* a JSON object holding the four required keys, a known role string and a
\* non-empty list of label strings.  risk_level and needs_approval are only
\* required to be present.
_parse_proposed_plan_struct_from_comment(body) ==
  LET parsed == body.block IN
  IF body.toks = <<>> /\ parsed.kind = "absent" THEN None
  ELSE IF parsed.kind # "dict" THEN None
  ELSE IF \/ parsed.risk_level.t = "missing"
          \/ parsed.needs_approval.t = "missing"
          \/ parsed.approval_role_required.t = "missing"
          \/ parsed.labels_to_add.t = "missing" THEN None
  ELSE IF \/ parsed.approval_role_required.t # "str"
          \/ parsed.approval_role_required.v \notin {"IT Admin", "N/A"} THEN None
  ELSE IF \/ parsed.labels_to_add.t # "list"
          \/ parsed.labels_to_add.items = <<>> THEN None
  ELSE parsed

\* ------------------------------------------- latest plan / latest approval
\* Comment positions are 1-based; 0 stands for Python's None.
\* variant: an unparsable plan comment is passed over for an older one
RECURSIVE ScanPlanParsable(_, _)
ScanPlanParsable(comments_, i) ==
  IF i < 1 THEN 0
  ELSE IF /\ HasPlanMarker(comments_[i].body)
          /\ _parse_proposed_plan_struct_from_comment(comments_[i].body) # None
  THEN i
  ELSE ScanPlanParsable(comments_, i - 1)

RECURSIVE ScanPlan(_, _)
ScanPlan(comments_, i) ==
  IF i < 1 THEN 0
  ELSE IF HasPlanMarker(comments_[i].body) THEN i
  ELSE ScanPlan(comments_, i - 1)

\* variant: the search for APPROVE does not stop at the plan
RECURSIVE ScanApproveAnywhere(_, _, _)
ScanApproveAnywhere(comments_, i, plan_index) ==
  IF i < 1 THEN 0
  ELSE IF IsApprove(comments_[i].body) THEN i
  ELSE ScanApproveAnywhere(comments_, i - 1, plan_index)

RECURSIVE ScanApprove(_, _, _)
ScanApprove(comments_, i, plan_index) ==
  IF i <= plan_index THEN 0
  ELSE IF IsApprove(comments_[i].body) THEN i
  ELSE ScanApprove(comments_, i - 1, plan_index)

\* variant: the oldest APPROVE after the plan is taken, not the newest
FindOldestApprove(comments_) ==
  LET plan_index == ScanPlan(comments_, Len(comments_)) IN
  IF plan_index = 0
  THEN [plan |-> 0, struct |-> None, approve |-> 0]
  ELSE [plan |-> plan_index,
        struct |-> _parse_proposed_plan_struct_from_comment(comments_[plan_index].body),
        approve |-> IF \E a \in (plan_index + 1)..Len(comments_) : IsApprove(comments_[a].body)
                    THEN CHOOSE a \in (plan_index + 1)..Len(comments_) :
                           /\ IsApprove(comments_[a].body)
                           /\ \A b \in (plan_index + 1)..(a - 1) : ~IsApprove(comments_[b].body)
                    ELSE 0]

_find_latest_proposed_plan_and_approve(comments_) ==
  LET plan_index == ScanPlan(comments_, Len(comments_)) IN
  IF plan_index = 0
  THEN [plan |-> 0, struct |-> None, approve |-> 0]
  ELSE [plan |-> plan_index,
        struct |-> _parse_proposed_plan_struct_from_comment(comments_[plan_index].body),
        approve |-> ScanApprove(comments_, Len(comments_), plan_index)]

\* -------------------------------------------------------- user directory
\* by_github_username of load_directory: lower-cased login -> role.  The
\* directory file is an input; this is the fixture of the model.  "mallory"
\* is a GitHub user the directory does not list.
Lower(login) == IF login = "Alice" THEN "alice" ELSE login

DirectoryLogins == {"alice", "bob", "eve", "carl"}

by_github_username(login_lower) ==
  CASE login_lower = "alice" -> "IT Admin"
    [] login_lower = "bob" -> "Engineer"
    [] login_lower = "eve" -> "Employee"
    [] login_lower = "carl" -> "Contractor"
    [] OTHER -> ""

\* ---------------------------------------------------- rejection comments
RejectionCodes ==
  {"rejected_employee_approval", "rejected_l2_requires_it_admin",
   "rejected_l1_requires_engineer_or_admin", "approver_not_in_directory",
   "invalid_plan_format", "no_proposed_plan"}

\* run.py _rejection_comment_message: the text of each message, cut into
\* tokens so that the words "Proposed Plan" of the last one stay visible to
\* the plan-marker search.
_rejection_comment_message(execution_result) ==
  CASE execution_result = "rejected_employee_approval" ->
         <<"**Approval rejected.** Employees cannot approve execution.">>
    [] execution_result = "rejected_l2_requires_it_admin" ->
         <<"**Approval rejected.** This plan requires IT Admin approval.">>
    [] execution_result = "rejected_l1_requires_engineer_or_admin" ->
         <<"**Approval rejected.** This plan requires an Engineer or IT Admin to approve.">>
    [] execution_result = "approver_not_in_directory" ->
         <<"**Approval rejected.** Your GitHub username is not in our directory",
           "comment", " ", "APPROVE">>
    [] execution_result = "invalid_plan_format" ->
         <<"**Invalid plan format.**">>
    [] execution_result = "no_proposed_plan" ->
         <<"**No proposed plan found.** There is no", " ", "Proposed Plan", " ",
           "comment on this issue.", "comment", " ", "APPROVE">>
    [] OTHER -> <<"**Approval could not be processed.**">>

\* variant: the role rejections are not commented
PostsRejectionFormatOnly(execution_result) ==
  execution_result \in {"invalid_plan_format", "no_proposed_plan"}

\* run.py _maybe_post_rejection_comment: does this result post a comment?
PostsRejection(execution_result) == execution_result \in RejectionCodes

\* ------------------------------------------------------ approval decision
\* run.py _run_execute_stage, lines 1542-1580: the outcome decided from the
\* parsed struct and the approving comment (has_approve: there is one).
\* apply says that _apply_approved_actions is to be called; execution_result
\* is then assigned after that call.
Decision(status, login, role, result, apply) ==
  [approval_status |-> status, approval_actor_login |-> login,
   approval_actor_role |-> role, execution_result |-> result, apply |-> apply]

\* variants: every directory role may approve; every role but Employee may
AnyDirectoryRole(role) == TRUE
NotEmployee(role) == role # "Employee"

RoleAllowsL1(role) == role \in {"Engineer", "IT Admin"}

RoleAllowsL2(role) == role = "IT Admin"

IsL2(struct) == struct.risk_level.t = "str" /\ struct.risk_level.v = "L2"

Decide(struct, has_approve, login) ==
  IF ~has_approve THEN Decision("pending", "", "", "no_approval_found", FALSE)
  ELSE
    LET login_lower == Lower(login)
        role == by_github_username(login_lower)
    IN
    IF login_lower \notin DirectoryLogins
    THEN Decision("rejected", login, "", "approver_not_in_directory", FALSE)
    ELSE IF role = "Employee"
    THEN Decision("rejected", login, role, "rejected_employee_approval", FALSE)
    ELSE IF Truthy(Get(struct.needs_approval))
    THEN IF IsL2(struct)
         THEN IF ~RoleAllowsL2(role)
              THEN Decision("rejected", login, role, "rejected_l2_requires_it_admin", FALSE)
              ELSE Decision("approved", login, role, "no_approval_found", TRUE)
         ELSE IF ~RoleAllowsL1(role)
              THEN Decision("rejected", login, role, "rejected_l1_requires_engineer_or_admin", FALSE)
              ELSE Decision("approved", login, role, "no_approval_found", TRUE)
    ELSE Decision("pending", login, role, "no_approval_found", FALSE)

\* ------------------------------------------------- comments users may post
BotLogin == "github-actions[bot]"

Comment(login, body) == [login |-> login, body |-> body]

LabelsAccess == JList(<<"cat:Access", "prio:Low", StatusPending>>)
LabelsVpn == JList(<<"cat:VPN", "prio:Low", StatusTriaged>>)

\* the struct the propose stage embeds for an Access request
StructL2 == Block("dict", JStr("L2"), JTrue, JStr("IT Admin"), LabelsAccess, JList(<<>>))
\* the struct the propose stage embeds for any other request
StructL1 == Block("dict", JStr("L1"), JFalse, JStr("N/A"), LabelsVpn, JList(<<>>))
\* a hand-written struct: risk L1 that asks for an IT Admin approval and names
\* an assignee
StructL1Admin ==
  Block("dict", JStr("L1"), JTrue, JStr("IT Admin"), LabelsAccess, JList(<<"bob">>))
StructBad == Block("badjson", JMissing, JMissing, JMissing, JNoList, JNoList)
\* a hand-written struct whose four required keys are present, with a risk
\* level that is no level and a needs_approval that is a string
StructOdd == Block("dict", JStr("L3"), JStr("yes"), JStr("IT Admin"), LabelsAccess, JList(<<>>))

\* comments with a plan title that users post; the plan the propose stage
\* posts for an Access request is in InitialComments
PlanBodies ==
  {Body(<<PlanTitleTriaged>>, StructL1),
   Body(<<PlanTitlePending>>, StructL1Admin),
   Body(<<PlanTitlePending>>, StructBad)}

EnvComments ==
  {Comment("bob", b) : b \in PlanBodies}
  \cup {Comment("Alice", Body(<<"APPROVE">>, NoBlock)),
        Comment("bob", Body(<<"Approve">>, NoBlock)),
        Comment("eve", Body(<<" ", "approve", "\n">>, NoBlock)),
        Comment("carl", Body(<<"APPROVE", "\n">>, NoBlock)),
        Comment("mallory", Body(<<"APPROVE">>, NoBlock))}

\* ============================================================ policy gate
\* A request text is modelled by the set of phrases it contains; a keyword
\* is "in" the lower-cased text when it is a substring of one of them.
Phrases ==
  {"vpn", "new hire", "grant access to a shared drive", "can't access",
   "outage", "urgent", "soon"}

\* kw in phrase (Python substring test) for the keywords and phrases used
IsSubstring(kw, phrase) ==
  \/ kw = phrase
  \/ kw \in {"access", "grant", "shared drive", "drive"}
       /\ phrase = "grant access to a shared drive"
  \/ kw = "access" /\ phrase = "can't access"

Contains(text, kw) == \E phrase \in text : IsSubstring(kw, phrase)

\* CATEGORY_KEYWORDS (lines 45-51), in dict order
CategoryOrder == <<"VPN", "MFA", "Onboarding", "Access">>

CATEGORY_KEYWORDS(cat) ==
  CASE cat = "VPN" -> {"vpn"}
    [] cat = "MFA" -> {"mfa", "2fa", "multi-factor"}
    [] cat = "Onboarding" -> {"onboarding", "new hire"}
    [] cat = "Access" -> {"access", "permission", "grant", "iam", "role", "group",
                          "shared drive", "drive", "folder", "sharepoint",
                          "onedrive", "google drive"}

\* PRIORITY_KEYWORDS (lines 54-76), in dict order; the keywords of the model
PriorityOrder == <<"Critical", "High", "Medium">>

PRIORITY_KEYWORDS(prio) ==
  CASE prio = "Critical" -> {"outage", "down", "many users", "widespread"}
    [] prio = "High" -> {"urgent", "blocked", "critical", "asap", "immediately"}
    [] prio = "Medium" -> {"soon", "deadline soon", "can't access", "cannot access",
                           "unable to access", "no access"}

\* first key of `order` (from position i on) one of whose keywords is in the
\* text, else `default`
RECURSIVE FirstMatch(_, _, _, _, _)
FirstMatch(text, order, i, cat_is_key, default) ==
  IF i > Len(order) THEN default
  ELSE IF \E kw \in (IF cat_is_key THEN CATEGORY_KEYWORDS(order[i])
                                   ELSE PRIORITY_KEYWORDS(order[i])) :
            Contains(text, kw)
  THEN order[i]
  ELSE FirstMatch(text, order, i + 1, cat_is_key, default)

\* val.capitalize() for the recognized urgency values
Capitalize(val) ==
  CASE val = "critical" -> "Critical"
    [] val = "high" -> "High"
    [] val = "medium" -> "Medium"
    [] val = "low" -> "Low"
    [] OTHER -> val

\* run.py triage_issue (lines 214-242).  urgency is the first recognized value
\* in the five lines under a "### Urgency" heading of the text, lower-cased,
\* or "" when the text has no such heading or no recognized value there.
triage_issue(text, urgency, source) ==
  LET category == FirstMatch(text, CategoryOrder, 1, TRUE, "Other")
      explicit == IF source = "github_issue"
                     /\ urgency \in {"critical", "high", "medium", "low"}
                  THEN Capitalize(urgency) ELSE "Low"
      priority == IF explicit = "Low"
                  THEN FirstMatch(text, PriorityOrder, 1, FALSE, "Low")
                  ELSE explicit
  IN [category |-> category, priority |-> priority]

\* f"cat:{category}" and f"prio:{priority}"
CatLabel(category) ==
  CASE category = "VPN" -> "cat:VPN"
    [] category = "MFA" -> "cat:MFA"
    [] category = "Onboarding" -> "cat:Onboarding"
    [] category = "Access" -> "cat:Access"
    [] OTHER -> "cat:Other"

PrioLabel(priority) ==
  CASE priority = "Critical" -> "prio:Critical"
    [] priority = "High" -> "prio:High"
    [] priority = "Medium" -> "prio:Medium"
    [] OTHER -> "prio:Low"

\* variant: the status label does not follow needs_approval
StatusAlwaysTriaged(needs_approval) == StatusTriaged

\* status label of line 324
StatusFor(needs_approval) == IF needs_approval THEN StatusPending ELSE StatusTriaged

\* is this category gated behind an approval (line 313)
IsGated(category) == category = "Access"

\* run.py build_proposed_actions_struct (lines 305-338)
build_proposed_actions_struct(triage, proposed_actions) ==
  LET category == triage.category
      priority == triage.priority
      gated == IsGated(category)
      risk_level == IF gated THEN "L2" ELSE "L1"
      approval_role_required == IF gated THEN "IT Admin" ELSE "N/A"
      needs_approval == gated
      auto_execute == ~gated
      status == StatusFor(needs_approval)
  IN [risk_level |-> risk_level,
      needs_approval |-> needs_approval,
      approval_role_required |-> approval_role_required,
      auto_execute |-> auto_execute,
      labels_to_add |-> <<CatLabel(category), PrioLabel(priority), status>>,
      assignees |-> <<>>,
      comment_summary |->
        IF proposed_actions # <<>>
        THEN <<"Proposed: ">> \o SubSeq(proposed_actions, 1,
                                        IF Len(proposed_actions) < 3
                                        THEN Len(proposed_actions) ELSE 3)
        ELSE <<"No actions">>]

NoTriage == [category |-> "", priority |-> ""]

NoStruct ==
  [risk_level |-> "", needs_approval |-> FALSE, approval_role_required |-> "",
   auto_execute |-> FALSE, labels_to_add |-> <<>>, assignees |-> <<>>,
   comment_summary |-> <<>>]

GateIdle ==
  [stage |-> "off", text |-> {}, urgency |-> "", source |-> "",
   proposed_actions |-> <<>>, triage |-> NoTriage, struct |-> NoStruct]

\* requests the gate is run on
GateInputs ==
  {[GateIdle EXCEPT !.stage = "request", !.text = t, !.urgency = u,
                    !.source = s, !.proposed_actions = a] :
     t \in SUBSET Phrases,
     u \in {"", "high", "low"},
     s \in {"cli_arg", "github_issue"},
     a \in {<<>>, <<"Verify the VPN client">>,
            <<"Check MFA", "Retry sign in", "Restart", "Open a ticket">>}}

\* ========================================================= proposal guard
\* A text is a sequence of tokens.  The tokens the guard's patterns react to:
\* user ids, quoted phrases, durations, capitalized multi-word phrases; a run
\* of 201 letters and one of 100 stand for long texts.
TextTokens ==
  {"Proposed: ", "No actions", "Verify the VPN client", "Grant access", " ",
   "u001", "U001", "\"Q1 Budget\"", "'hr'", "30 days", "Shared Drive",
   "A*201", "A*100"}

\* len(tok)
TokLen(tok) ==
  CASE tok = "A*201" -> 201
    [] tok = "A*100" -> 100
    [] tok = "Verify the VPN client" -> 21
    [] tok \in {"Grant access", "Shared Drive"} -> 12
    [] tok \in {"Proposed: ", "No actions"} -> 10
    [] tok = "\"Q1 Budget\"" -> 11
    [] tok = "30 days" -> 7
    [] tok \in {"u001", "U001", "'hr'"} -> 4
    [] OTHER -> 1

RECURSIVE TextLen(_)
TextLen(text) == IF text = <<>> THEN 0 ELSE TokLen(Head(text)) + TextLen(Tail(text))

\* text.strip()
Strip(text) == RStrip(LStrip(text))

\* text[:300] for the texts of the model: whole tokens are kept while they fit
RECURSIVE Truncate(_, _)
Truncate(text, n) ==
  IF text = <<>> \/ TokLen(Head(text)) > n THEN <<>>
  ELSE <<Head(text)>> \o Truncate(Tail(text), n - TokLen(Head(text)))

\* what each pattern of validate_comment_summary captures in a token, lower-cased
\* ("" when the pattern does not match the token)
UserIdIn(tok) == IF tok \in {"u001", "U001"} THEN "u001" ELSE ""
QuotedIn(tok) ==
  CASE tok = "\"Q1 Budget\"" -> "q1 budget"
    [] tok = "'hr'" -> "hr"
    [] OTHER -> ""
QuotedLen(tok) ==
  CASE tok = "\"Q1 Budget\"" -> 9
    [] tok = "'hr'" -> 2
    [] OTHER -> 0
DurationIn(tok) == IF tok = "30 days" THEN "30 days" ELSE ""
CapPhraseIn(tok) == IF tok = "Shared Drive" THEN "shared drive" ELSE ""

\* fragments a lower-cased request text may contain
IssueFragments == {"u001", "q1 budget", "30 days", "shared drive"}

Verdict(ok, reason) == [ok |-> ok, reason |-> reason]

\* run.py validate_comment_summary (lines 833-870); issue_lower is the set of
\* fragments the lower-cased request contains
validate_comment_summary(comment_summary, issue_lower) ==
  LET cs == Strip(comment_summary)
      toks == SeqToSet(cs)
  IN
  IF cs = <<>> THEN Verdict(TRUE, "")
  ELSE IF TextLen(cs) > 200 THEN Verdict(FALSE, "comment_summary_too_long")
  ELSE IF \E t \in toks : UserIdIn(t) # "" /\ UserIdIn(t) \notin issue_lower
  THEN Verdict(FALSE, "new_facts:user_id")
  ELSE IF \E t \in toks : /\ QuotedIn(t) # ""
                          /\ QuotedLen(t) > 2
                          /\ QuotedIn(t) \notin issue_lower
  THEN Verdict(FALSE, "new_facts:quoted_entity")
  ELSE IF \E t \in toks : DurationIn(t) # "" /\ DurationIn(t) \notin issue_lower
  THEN Verdict(FALSE, "new_facts:duration")
  ELSE IF \E t \in toks : CapPhraseIn(t) # "" /\ CapPhraseIn(t) \notin issue_lower
  THEN Verdict(FALSE, "new_facts:capitalized_entity")
  ELSE Verdict(TRUE, "")

\* A proposal object: the JSON value the generator returned.  comment_summary
\* is JMissing, a string [t |-> "str", v |-> text] or a number; the other keys
\* are JMissing or the values a tampering generator would send.
Proposal(kind, cs, assignees, risk, needs, role, labels) ==
  [kind |-> kind, comment_summary |-> cs, assignees |-> assignees,
   risk_level |-> risk, needs_approval |-> needs,
   approval_role_required |-> role, labels_to_add |-> labels]

NoProposal ==
  Proposal("None", JMissing, JNoList, JMissing, JMissing, JMissing, JNoList)

JText(text) == [t |-> "str", v |-> text]
JNum == [t |-> "num", v |-> <<>>]

\* proposal meta: fallback_reason is a text, <<>> for ""
Meta(used_llm, fallback_reason) ==
  [used_llm |-> used_llm, fallback_reason |-> fallback_reason]

\* run.py _validate_proposal (lines 890-917)
_validate_proposal(obj) ==
  IF obj.kind # "dict" THEN Verdict(FALSE, "not_a_dict")
  ELSE IF obj.comment_summary.t \notin {"missing", "str"}
  THEN Verdict(FALSE, "comment_summary_not_string")
  ELSE IF obj.comment_summary.t = "str" /\ TextLen(obj.comment_summary.v) > 300
  THEN Verdict(FALSE, "comment_summary_too_long")
  ELSE IF obj.assignees.t \notin {"missing", "list"}
  THEN Verdict(FALSE, "assignees_not_list")
  ELSE IF obj.assignees.t = "list" /\ Len(obj.assignees.items) > 10
  THEN Verdict(FALSE, "assignees_too_many")
  ELSE Verdict(TRUE, "")

\* run.py build_proposal (lines 977-1004).  The request, the triage and the
\* intermediate only feed the prompt; reply is what _call_openai_proposal
\* gives back: an exception (kind "raise") or the parsed JSON value.
build_proposal(use_llm, api_key, reply) ==
  IF ~use_llm THEN [proposal |-> NoProposal, meta |-> Meta(FALSE, <<>>)]
  ELSE IF ~api_key
  THEN [proposal |-> NoProposal, meta |-> Meta(FALSE, <<"no_openai_api_key">>)]
  ELSE IF reply.kind = "raise"
  THEN [proposal |-> NoProposal, meta |-> Meta(FALSE, <<"llm_error:", "timeout">>)]
  ELSE LET v == _validate_proposal(reply) IN
       IF ~v.ok
       THEN [proposal |-> NoProposal,
             meta |-> Meta(FALSE, <<"invalid_proposal:", v.reason>>)]
       ELSE [proposal |-> reply, meta |-> Meta(TRUE, <<>>)]

\* variant: the proposal's own needs_approval is taken over
MergeTrustingProposal(base_struct, triage, mode, proposal, issue_lower, proposal_meta) ==
  LET needs == IF proposal.needs_approval.t = "missing"
               THEN base_struct.needs_approval
               ELSE Truthy(proposal.needs_approval)
  IN [struct |-> [base_struct EXCEPT
                    !.needs_approval = needs,
                    !.labels_to_add = <<CatLabel(triage.category),
                                        PrioLabel(triage.priority),
                                        IF needs THEN StatusPending ELSE StatusTriaged>>],
      proposal_meta |-> proposal_meta]

\* variant: a rejected summary leaves no trace in the meta
MergeSilently(base_struct, triage, mode, proposal, issue_lower, proposal_meta) ==
  LET cs == proposal.comment_summary
      use == /\ proposal.kind = "dict"
             /\ cs.t = "str"
             /\ Strip(cs.v) # <<>>
             /\ validate_comment_summary(cs.v, issue_lower).ok
  IN [struct |-> IF use
                 THEN [base_struct EXCEPT !.comment_summary = Truncate(Strip(cs.v), 300)]
                 ELSE base_struct,
      proposal_meta |-> proposal_meta]

\* run.py merge_and_guard_proposed_struct (lines 1006-1047): the struct it
\* returns and the proposal meta as it leaves it
merge_and_guard_proposed_struct(base_struct, triage, mode, proposal, issue_lower, proposal_meta) ==
  LET status == IF base_struct.needs_approval THEN StatusPending ELSE StatusTriaged
      out == [base_struct EXCEPT
                !.labels_to_add = <<CatLabel(triage.category),
                                    PrioLabel(triage.priority), status>>]
      cs == proposal.comment_summary
  IN
  IF proposal.kind = "dict" /\ cs.t = "str" /\ Strip(cs.v) # <<>>
  THEN LET v == validate_comment_summary(cs.v, issue_lower) IN
       IF v.ok
       THEN [struct |-> [out EXCEPT !.comment_summary = Truncate(Strip(cs.v), 300)],
             proposal_meta |-> proposal_meta]
       ELSE [struct |-> out,
             proposal_meta |->
               [proposal_meta EXCEPT !.fallback_reason =
                  IF @ # <<>> THEN @ ELSE <<"invalid_proposal:", v.reason>>]]
  ELSE [struct |-> out, proposal_meta |-> proposal_meta]

\* candidate summaries of the generator
CandidateSummaries ==
  {<<"Grant access">>, <<" ", "Grant access", " ">>, <<" ">>,
   <<"Grant access", " ", "u001">>, <<"Grant access", " ", "U001">>,
   <<"Grant access", " ", "\"Q1 Budget\"">>, <<"'hr'">>,
   <<"Grant access", " ", "30 days">>, <<"Shared Drive">>,
   <<"A*201">>, <<"A*201", "A*100">>, <<"u001", " ", "30 days">>}

\* replies of the generator: a failed call, JSON that is no object, objects
\* with and without a summary, an assignee list, and policy keys
GeneratorReplies ==
  {Proposal("raise", JMissing, JNoList, JMissing, JMissing, JMissing, JNoList),
   Proposal("notdict", JMissing, JNoList, JMissing, JMissing, JMissing, JNoList)}
  \cup
  {Proposal("dict", cs, a, pol[1], pol[2], pol[3], pol[4]) :
     cs \in {JMissing, JNum} \cup {JText(c) : c \in CandidateSummaries},
     a \in {JNoList, JList(<<"mallory">>), [t |-> "str", items |-> <<>>]},
     pol \in {<<JMissing, JMissing, JMissing, JNoList>>,
              <<JStr("L1"), JFalse, JStr("N/A"), JList(<<StatusExecuted>>)>>}}

GuardIdle ==
  [stage |-> "off", triage |-> NoTriage, proposed_actions |-> <<>>,
   issue_lower |-> {}, use_llm |-> FALSE, api_key |-> FALSE,
   reply |-> NoProposal, base |-> NoStruct, proposal |-> NoProposal,
   proposal_meta |-> Meta(FALSE, <<>>), struct |-> NoStruct]

\* what _build_answer_and_actions has in hand after triage_issue
GuardInputs ==
  {[GuardIdle EXCEPT !.stage = "triaged", !.triage = tr, !.proposed_actions = pa,
                     !.issue_lower = il, !.use_llm = llm[1], !.api_key = llm[2],
                     !.reply = llm[3]] :
     tr \in {[category |-> c, priority |-> pr] :
               c \in {"Access", "VPN"}, pr \in {"Low", "High"}},
     pa \in {<<>>, <<"Verify the VPN client">>},
     il \in SUBSET IssueFragments,
     llm \in {<<FALSE, TRUE, NoProposal>>, <<TRUE, FALSE, NoProposal>>}
             \cup {<<TRUE, TRUE, r>> : r \in GeneratorReplies}}

\* ==================================================== evidence synthesizer
MaxRetrieved == 3   \* passages handed to the synthesizer (top-K)

CONF_K == 8

\* The runbook sections of the model.  content is the text of the section,
\* score the final score the retrieval engine gave it (set per request).
Section(doc_path, heading, tier, content) ==
  [doc_path |-> doc_path, heading |-> heading, tier |-> tier,
   content |-> content, score |-> 0]

Corpus ==
  {Section("a.md", "Fix", "public", "1. Verify the VPN client"),
   Section("b.md", "MFA", "internal", "Check MFA settings"),
   Section("c.md", "Certificates", "public", "Verify the certificate"),
   Section("d.md", "Overview", "restricted", "")}

\* f"S{i}"
SourceId(i) ==
  CASE i = 1 -> "S1" [] i = 2 -> "S2" [] i = 3 -> "S3" [] i = 4 -> "S4"
    [] i = 5 -> "S5" [] OTHER -> "S9"

\* run.py build_source_catalog (lines 421-444)
build_source_catalog(context_sections) ==
  LET sources == [i \in 1..Len(context_sections) |->
                    [source_id |-> SourceId(i),
                     doc_name |-> context_sections[i].doc_path,
                     heading |-> context_sections[i].heading,
                     content |-> context_sections[i].content]]
  IN [sources |-> sources,
      source_map |-> {SourceId(i) : i \in 1..Len(context_sections)}]

\* run.py _pick_best_line (lines 446-495) on the contents of the corpus
_pick_best_line(text) ==
  IF text = "1. Verify the VPN client" THEN "Verify the VPN client" ELSE text

\* run.py _leading_verb_key (lines 541-562) on the lines of the model
_leading_verb_key(text) ==
  CASE text \in {"Verify the VPN client", "Verify the certificate", "Verify VPN"} -> "verify"
    [] text = "Check MFA settings" -> "check"
    [] OTHER -> "other"

VerbOrder ==
  <<"verify", "check", "confirm", "ensure", "retry", "restart", "reconnect",
    "disconnect", "open", "sign in", "sign-in", "other">>

\* a confidence number is a fraction num / den
Frac(num, den) == [num |-> num, den |-> den]
NoNum == Frac(0, 0)

\* conf >= pct / 100
AtLeast(conf, pct) == conf.num * 100 >= pct * conf.den

\* run.py confidence_from_max_score (lines 203-212)
confidence_from_max_score(max_score) ==
  IF max_score <= 0 THEN Frac(0, 1) ELSE Frac(max_score, max_score + CONF_K)

\* max((s.get("final_score", s.get("score", 0)) for s in sections), default=0)
RECURSIVE MaxScore(_)
MaxScore(sections) ==
  IF sections = <<>> THEN 0
  ELSE IF Len(sections) = 1 THEN sections[1].score
  ELSE LET rest == MaxScore(Tail(sections)) IN
       IF sections[1].score >= rest THEN sections[1].score ELSE rest

\* "High" if conf >= 0.70 else "Medium" if conf >= 0.45 else "Low"
ConfidenceBand(conf) ==
  IF AtLeast(conf, 70) THEN "High"
  ELSE IF AtLeast(conf, 45) THEN "Medium"
  ELSE "Low"

\* variant: no floor for a maximum score of 0
RetrievalConfidenceNoFloor(sections) ==
  confidence_from_max_score(MaxScore(sections))

\* the retrieval confidence of lines 583-586 and 1322-1325
RetrievalConfidence(sections) ==
  IF MaxScore(sections) = 0 THEN Frac(1, 4)
  ELSE confidence_from_max_score(MaxScore(sections))

Bullet(text, source_id) == [text |-> text, source_id |-> source_id]
Step(step, rationale, source_ids) ==
  [step |-> step, rationale |-> rationale, source_ids |-> source_ids]

\* An intermediate: the JSON object of the v2 schema.  keys are the keys the
\* object holds; kind is "dict", or "notdict" / "raise" for generator replies
\* that are no object or no reply at all.
Intermediate(kind, keys, ss, eb, cq, cl, cr, num) ==
  [kind |-> kind, keys |-> keys, summary_steps |-> ss, evidence_bullets |-> eb,
   clarifying_question |-> cq, confidence_level |-> cl,
   confidence_reason |-> cr, retrieval_confidence_num |-> num]

SchemaKeys ==
  {"summary_steps", "evidence_bullets", "clarifying_question",
   "confidence_level", "confidence_reason"}

\* list(dict.fromkeys(ids))
RECURSIVE Dedupe(_)
Dedupe(ids) ==
  IF ids = <<>> THEN <<>>
  ELSE LET front == Dedupe(SubSeq(ids, 1, Len(ids) - 1))
           last == ids[Len(ids)]
       IN IF last \in SeqToSet(front) THEN front ELSE Append(front, last)

\* xs[:n]
Take(xs, n) == SubSeq(xs, 1, IF Len(xs) < n THEN Len(xs) ELSE n)

\* lines 607-608: pad to two bullets with the generic line tagged N/A
RECURSIVE PadBullets(_)
PadBullets(bullets) ==
  IF Len(bullets) >= 2 THEN bullets
  ELSE PadBullets(Append(bullets,
         Bullet("Review the retrieved runbook sections and follow the documented steps.",
                "N/A")))

\* lines 611-635: one step per verb group, in the fixed verb order
RECURSIVE GroupSteps(_, _)
GroupSteps(bullets, k) ==
  IF k > Len(VerbOrder) THEN <<>>
  ELSE LET idx == {i \in 1..Len(bullets) :
                     /\ bullets[i].source_id # "N/A"
                     /\ _leading_verb_key(bullets[i].text) = VerbOrder[k]}
           ids == Dedupe(SelectSeq([i \in 1..Len(bullets) |->
                                      IF i \in idx THEN bullets[i].source_id ELSE "N/A"],
                                   LAMBDA x : x # "N/A"))
           first == CHOOSE i \in idx : \A j \in idx : i <= j
       IN IF idx = {} THEN GroupSteps(bullets, k + 1)
          ELSE <<Step(bullets[first].text,
                      "Recommended by the cited runbook for this symptom.", ids)>>
               \o GroupSteps(bullets, k + 1)

\* lines 637-643: pad to two steps
RECURSIVE PadSteps(_, _)
PadSteps(steps, ids) ==
  IF Len(steps) >= 2 THEN steps
  ELSE PadSteps(Append(steps, Step("Follow the cited runbook steps.",
                                   "Evidence from retrieved sections.", ids)),
                ids)

\* run.py _deterministic_intermediate (lines 566-659); needs_details and
\* has_explicit_error are what lines 646-647 find in the request text
_deterministic_intermediate(context_sections, needs_details, has_explicit_error) ==
  IF context_sections = <<>>
  THEN Intermediate("dict", SchemaKeys,
         <<Step("Escalate through official IT support.",
                "No runbook sections were retrieved.", <<>>),
           Step("Provide more details or error message.",
                "Helps narrow down the right runbook.", <<>>)>>,
         <<Bullet("No accessible runbook sections were retrieved for this request.", "N/A"),
           Bullet("Escalate through the official IT support process or provide more details.",
                  "N/A")>>,
         "What system/app and exact error message are you seeing?",
         "Low", <<"No retrieved evidence available in accessible tiers.">>,
         Frac(1, 4))
  ELSE
    LET conf_num == RetrievalConfidence(context_sections)
        sources == Take(build_source_catalog(context_sections).sources, 8)
        \* a section without a usable line gives f"{doc_name} - {heading}",
        \* named here by its doc_name
        from_sources == [i \in 1..Len(sources) |->
                           Bullet(IF _pick_best_line(sources[i].content) # ""
                                  THEN _pick_best_line(sources[i].content)
                                  ELSE sources[i].doc_name,
                                  sources[i].source_id)]
        evidence_bullets == PadBullets(from_sources)
        cited == SelectSeq([i \in 1..Len(evidence_bullets) |->
                              evidence_bullets[i].source_id],
                           LAMBDA x : x # "N/A")
        fallback_sids == IF cited # <<>> THEN Take(cited, 3)
                         ELSE <<sources[1].source_id>>
        summary_steps == PadSteps(Take(GroupSteps(Take(evidence_bullets, 8), 1), 5),
                                  fallback_sids)
    IN Intermediate("dict", SchemaKeys,
         Take(summary_steps, 5), Take(evidence_bullets, 8),
         IF needs_details /\ ~has_explicit_error
         THEN "Which system/app is this for, and what is the exact error message (copy/paste if possible)?"
         ELSE "",
         ConfidenceBand(conf_num), <<"Derived from retrieval max_score">>, conf_num)

\* a question of 241 characters; every other question of the model is short
LongQuestion == "Q241"
QuestionLen(cq) == IF cq = LongQuestion THEN 241 ELSE IF cq = "" THEN 0 ELSE 40

\* the first non-empty reason of a list of reasons, "" when there is none
RECURSIVE FirstReason(_)
FirstReason(reasons) ==
  IF reasons = <<>> THEN ""
  ELSE IF reasons[1] # "" THEN reasons[1]
  ELSE FirstReason(Tail(reasons))

\* variant: a bullet may name any source id
BulletReasonAnyId(b, source_map) ==
  IF b.text = "" THEN "evidence_bullet_text_invalid"
  ELSE IF b.source_id = "" THEN "evidence_bullet_source_id_invalid"
  ELSE IF b.source_id = "N/A"
       THEN IF source_map # {} THEN "evidence_bullet_n/a_when_sources" ELSE ""
  ELSE ""

\* lines 675-688: the checks on one evidence bullet
BulletReason(b, source_map) ==
  IF b.text = "" THEN "evidence_bullet_text_invalid"
  ELSE IF b.source_id = "" THEN "evidence_bullet_source_id_invalid"
  ELSE IF b.source_id = "N/A"
       THEN IF source_map # {} THEN "evidence_bullet_n/a_when_sources" ELSE ""
  ELSE IF b.source_id \notin source_map
       THEN "evidence_bullet_source_id_not_in_sources"
  ELSE ""

\* lines 696-715: the checks on one summary step
StepReason(st, source_map) ==
  IF st.step = "" THEN "summary_step_step_empty"
  ELSE IF st.rationale = "" THEN "summary_step_rationale_empty"
  ELSE IF \E i \in 1..Len(st.source_ids) : st.source_ids[i] \notin source_map
       THEN "summary_step_source_id_not_in_sources"
  ELSE IF source_map # {} /\ st.source_ids = <<>> /\ _leading_verb_key(st.step) = "other"
       THEN "summary_step_unattributed_nonverb"
  ELSE ""

\* run.py _validate_intermediate_v2 (lines 662-732): the reason of the first
\* failed check, "" when the object is valid
ValidationReason(obj, source_map) ==
  LET missing == [k \in {"summary_steps", "evidence_bullets", "clarifying_question",
                        "confidence_level", "confidence_reason"} |-> k \notin obj.keys]
      eb == obj.evidence_bullets
      ss == obj.summary_steps
      ebr == FirstReason([i \in 1..Len(eb) |-> BulletReason(eb[i], source_map)])
      ssr == FirstReason([i \in 1..Len(ss) |-> StepReason(ss[i], source_map)])
  IN IF obj.kind # "dict" THEN "not_a_dict"
     ELSE IF missing["summary_steps"] THEN "missing_field:summary_steps"
     ELSE IF missing["evidence_bullets"] THEN "missing_field:evidence_bullets"
     ELSE IF missing["clarifying_question"] THEN "missing_field:clarifying_question"
     ELSE IF missing["confidence_level"] THEN "missing_field:confidence_level"
     ELSE IF missing["confidence_reason"] THEN "missing_field:confidence_reason"
     ELSE IF ~(2 <= Len(eb) /\ Len(eb) <= 8) THEN "evidence_bullets_count_out_of_range"
     ELSE IF ebr # "" THEN ebr
     ELSE IF ~(2 <= Len(ss) /\ Len(ss) <= 5) THEN "summary_steps_count_out_of_range"
     ELSE IF ssr # "" THEN ssr
     ELSE IF QuestionLen(obj.clarifying_question) > 240 THEN "clarifying_question_too_long"
     ELSE IF obj.confidence_level \notin {"High", "Medium", "Low"}
          THEN "invalid_confidence_level"
     ELSE IF obj.confidence_reason = <<>> THEN "confidence_reason_invalid"
     ELSE ""

_validate_intermediate_v2(obj, source_map) ==
  Verdict(ValidationReason(obj, source_map) = "", ValidationReason(obj, source_map))

\* det.pop("_retrieval_confidence_num", None)
PopNum(det) == [det EXCEPT !.retrieval_confidence_num = NoNum]

\* run.py build_intermediate (lines 791-827).  reply is what
\* _call_openai_intermediate returns: an object, a value that is no object
\* (kind "notdict"), or an exception (kind "raise": call or parse failure).
build_intermediate(context_sections, needs_details, has_explicit_error, use_llm, api_key, reply) ==
  LET det == PopNum(_deterministic_intermediate(context_sections, needs_details,
                                               has_explicit_error))
      source_map == build_source_catalog(context_sections).source_map
      v == _validate_intermediate_v2(reply, source_map)
  IN IF ~use_llm THEN [intermediate |-> det, meta |-> Meta(FALSE, <<>>)]
     ELSE IF ~api_key
          THEN [intermediate |-> det, meta |-> Meta(FALSE, <<"no_openai_api_key">>)]
     ELSE IF reply.kind = "raise"
          THEN [intermediate |-> det, meta |-> Meta(FALSE, <<"llm_error">>)]
     ELSE IF /\ reply.kind = "dict"
             /\ "bullets" \in reply.keys
             /\ "evidence_bullets" \notin reply.keys
          THEN [intermediate |-> det,
                meta |-> Meta(FALSE, <<"invalid_intermediate", "old_format_bullets">>)]
     ELSE IF ~v.ok
          THEN [intermediate |-> det,
                meta |-> Meta(FALSE, <<"invalid_intermediate", v.reason>>)]
     ELSE [intermediate |-> reply, meta |-> Meta(TRUE, <<>>)]

Citation(section) ==
  [doc |-> section.doc_path, section |-> section.heading, tier |-> section.tier]

\* the rank i of source id S<i> among n retrieved passages, 0 when there is none
RankOf(sid, n) == IF \E i \in 1..n : SourceId(i) = sid
                  THEN CHOOSE i \in 1..n : SourceId(i) = sid ELSE 0

\* variant: the ids of the summary steps are cited as well
CitedIdsWithSteps(intermediate, retrieved) ==
  LET eb == intermediate.evidence_bullets
      ss == intermediate.summary_steps
      RECURSIVE Flat(_)
      Flat(k) == IF k > Len(ss) THEN <<>> ELSE ss[k].source_ids \o Flat(k + 1)
      ids == [i \in 1..Len(eb) |-> eb[i].source_id] \o Flat(1)
  IN Dedupe(SelectSeq(ids, LAMBDA x : x \notin {"", "N/A"} /\ RankOf(x, Len(retrieved)) # 0))

\* lines 1287-1295: ordered_ids
CitedIds(intermediate, retrieved) ==
  LET eb == intermediate.evidence_bullets
      ids == [i \in 1..Len(eb) |-> eb[i].source_id]
  IN Dedupe(SelectSeq(ids, LAMBDA x : x \notin {"", "N/A"} /\ RankOf(x, Len(retrieved)) # 0))

\* run.py _citations_from_intermediate (lines 1284-1305)
_citations_from_intermediate(intermediate, retrieved) ==
  LET ordered_ids == CitedIds(intermediate, retrieved)
  IN [k \in 1..Len(ordered_ids) |->
        Citation(retrieved[RankOf(ordered_ids[k], Len(retrieved))])]

\* lines 1322-1350 of _build_answer_and_actions: the retrieval confidence,
\* the alignment of the intermediate with it, and the citations
BuildAnswer(intermediate, intermediate_meta, retrieved) ==
  LET retrieval_conf == RetrievalConfidence(retrieved)
      existing_reason == intermediate.confidence_reason
      aligned == [intermediate EXCEPT
                    !.confidence_level = ConfidenceBand(retrieval_conf),
                    !.confidence_reason =
                       IF existing_reason # <<>> /\ existing_reason[1] = "retrieval_confidence="
                       THEN existing_reason
                       ELSE <<"retrieval_confidence=">> \o existing_reason]
  IN [citations |-> _citations_from_intermediate(aligned, retrieved),
      confidence |-> retrieval_conf,
      intermediate |-> aligned,
      intermediate_meta |-> intermediate_meta]

\* ---- inputs of the synthesizer
TopScores == {0, 3, 7, 20}

\* the sequences of at most n distinct sections
RECURSIVE DistinctSeqs(_, _)
DistinctSeqs(S, n) ==
  IF n = 0 THEN {<<>>}
  ELSE LET shorter == DistinctSeqs(S, n - 1)
       IN shorter \cup {Append(q, x) : q \in {r \in shorter : Len(r) = n - 1}, x \in S}

NoRepeat(q) == \A i, j \in 1..Len(q) : i # j => q[i] # q[j]

\* ranked lists: the best passage first with its score, the others scored 0
RetrievedLists ==
  {[i \in 1..Len(q) |-> [q[i] EXCEPT !.score = IF i = 1 THEN top ELSE 0]] :
     q \in {r \in DistinctSeqs(Corpus, MaxRetrieved) : NoRepeat(r)},
     top \in TopScores}

VerbSteps(ids1, ids2) ==
  <<Step("Verify VPN", "Recommended by the runbook.", ids1),
    Step("Check MFA settings", "Recommended by the runbook.", ids2)>>

Reply(keys, ss, eb, cq, cl) ==
  Intermediate("dict", keys, ss, eb, cq, cl, <<"From the sources.">>, NoNum)

\* what the generator may send back
GeneratorIntermediates ==
  {Intermediate("raise", {}, <<>>, <<>>, "", "", <<>>, NoNum),
   Intermediate("notdict", {}, <<>>, <<>>, "", "", <<>>, NoNum),
   Reply((SchemaKeys \ {"evidence_bullets"}) \cup {"bullets"},
         VerbSteps(<<"S1">>, <<>>), <<>>, "", "Low"),
   Reply(SchemaKeys \ {"evidence_bullets"}, VerbSteps(<<"S1">>, <<>>), <<>>, "", "Low"),
   Reply(SchemaKeys, VerbSteps(<<"S1">>, <<"S3">>),
         <<Bullet("Check MFA settings", "S2"), Bullet("Verify VPN", "S1"),
           Bullet("Check MFA again", "S2")>>, "", "High"),
   Reply(SchemaKeys, VerbSteps(<<"S1">>, <<>>),
         <<Bullet("Verify VPN", "S1"), Bullet("Verify VPN twice", "S1")>>,
         "Which VPN client do you use?", "High"),
   Reply(SchemaKeys, VerbSteps(<<"S1">>, <<>>),
         <<Bullet("Verify VPN", "S1"), Bullet("Reset the token", "S9")>>, "", "Low"),
   Reply(SchemaKeys, VerbSteps(<<>>, <<>>),
         <<Bullet("No sources were given.", "N/A"), Bullet("Escalate to IT.", "N/A")>>,
         "", "High"),
   Reply(SchemaKeys, VerbSteps(<<"S1">>, <<>>), <<Bullet("Verify VPN", "S1")>>, "", "Low"),
   Reply(SchemaKeys, VerbSteps(<<"S1">>, <<"S9">>),
         <<Bullet("Verify VPN", "S1"), Bullet("Verify VPN twice", "S1")>>, "", "Low"),
   Reply(SchemaKeys,
         <<Step("Verify VPN", "Recommended by the runbook.", <<"S1">>),
           Step("Call the vendor", "It usually helps.", <<>>)>>,
         <<Bullet("Verify VPN", "S1"), Bullet("Verify VPN twice", "S1")>>, "", "Low"),
   Reply(SchemaKeys, VerbSteps(<<"S1">>, <<>>),
         <<Bullet("Verify VPN", "S1"), Bullet("Verify VPN twice", "S1")>>, "", "Certain"),
   Reply(SchemaKeys, VerbSteps(<<"S1">>, <<>>),
         <<Bullet("Verify VPN", "S1"), Bullet("Verify VPN twice", "S1")>>,
         LongQuestion, "Low"),
   Reply(SchemaKeys, VerbSteps(<<"S1">>, <<>>),
         <<Bullet("Verify VPN", "S1"), Bullet("", "S1")>>, "", "Low")}

NoIntermediate == Intermediate("none", {}, <<>>, <<>>, "", "", <<>>, NoNum)
NoAnswer ==
  [citations |-> <<>>, confidence |-> NoNum, intermediate |-> NoIntermediate,
   intermediate_meta |-> Meta(FALSE, <<>>)]

SynthIdle ==
  [stage |-> "off", retrieved |-> <<>>, needs_details |-> FALSE,
   has_explicit_error |-> FALSE, use_llm |-> FALSE, api_key |-> FALSE,
   reply |-> NoIntermediate, intermediate |-> NoIntermediate,
   meta |-> Meta(FALSE, <<>>), answer |-> NoAnswer]

SynthInputs ==
  {[SynthIdle EXCEPT !.stage = "in", !.retrieved = retrieved,
                     !.needs_details = flags[1], !.has_explicit_error = flags[2],
                     !.use_llm = flags[3], !.api_key = flags[4], !.reply = reply] :
     retrieved \in RetrievedLists,
     flags \in BOOLEAN \X BOOLEAN \X BOOLEAN \X BOOLEAN,
     reply \in GeneratorIntermediates}

\* ======================================================== retrieval engine
MaxEdits == 1      \* edits of the runbooks in one behaviour

\* --top_k of the requests of the model
TopK == 1

IndexProcs == {"q1", "q2"}

\* docs/<tier>/<name>: the tier of a runbook is the directory it lies in
Tiers == {"public", "internal", "restricted"}
FileNames == <<"a.md", "b.md">>

Headings == {"VPN Fix", "VPN fix!", "VPN Repair"}

\* a body is its first 200 characters (head) and what follows them (tail)
DocBody(head, tail) == [head |-> head, tail |-> tail]
DocBodies == {DocBody("h1", "t1"), DocBody("h2", "t1"), DocBody("h1", "t2")}

\* len(content)
BodyLen(body) == 200 + (IF body.tail \in {"t1", "t2"} THEN 100 ELSE 0)

\* run.py ROLE_TIER_MAP (lines 38-42) and resolve_user's default []
ROLE_TIER_MAP(role) ==
  CASE role \in {"Employee", "Engineer"} -> <<"public", "internal">>
    [] role = "IT Admin" -> <<"public", "internal", "restricted">>
    [] OTHER -> <<>>

RequesterRoles == {"Employee", "IT Admin"}

\* run.py slugify_heading (lines 195-201)
slugify_heading(text) ==
  CASE text \in {"VPN Fix", "VPN fix!"} -> "vpn-fix"
    [] text = "VPN Repair" -> "vpn-repair"
    [] OTHER -> ""

\* run.py parse_markdown_sections (lines 122-172) on a file of one heading
parse_markdown_sections(name, tier, file) ==
  <<[doc_path |-> <<tier, name>>, tier |-> tier, heading |-> file.heading,
     content |-> file.body, anchor |-> slugify_heading(file.heading)]>>

\* the sections of the files of one tier directory
RECURSIVE TierSections(_, _, _)
TierSections(tier, docs, k) ==
  IF k > Len(FileNames) THEN <<>>
  ELSE (IF docs[FileNames[k]].tier = tier
        THEN parse_markdown_sections(FileNames[k], tier, docs[FileNames[k]])
        ELSE <<>>) \o TierSections(tier, docs, k + 1)

\* variant: every tier directory is read
LoadEveryTier(allowed_tiers, docs) ==
  TierSections("public", docs, 1) \o TierSections("internal", docs, 1)
    \o TierSections("restricted", docs, 1)

\* run.py load_allowed_documents (lines 175-192)
RECURSIVE load_allowed_documents(_, _)
load_allowed_documents(allowed_tiers, docs) ==
  IF allowed_tiers = <<>> THEN <<>>
  ELSE TierSections(allowed_tiers[1], docs, 1)
         \o load_allowed_documents(Tail(allowed_tiers), docs)

\* text_utils.score_section for the request text of the model, whose tokens
\* occur twice in head h1 and not in h2
score_section(section) == IF section.content.head = "h1" THEN 2 ELSE 0

\* cosine similarity (in tenths) of the request text and an embedded text
vector_score(text) == IF text.content.head = "h1" THEN 9 ELSE 4

\* list.sort(key=final_score, reverse=True): stable, best first
RECURSIVE SortByFinalScore(_)
SortByFinalScore(xs) ==
  IF xs = <<>> THEN <<>>
  ELSE LET best == CHOOSE i \in 1..Len(xs) :
                     /\ \A j \in 1..Len(xs) : xs[j].final_score <= xs[i].final_score
                     /\ \A j \in 1..(i - 1) : xs[j].final_score < xs[i].final_score
       IN <<xs[best]>> \o SortByFinalScore([j \in 1..(Len(xs) - 1) |->
                                             IF j < best THEN xs[j] ELSE xs[j + 1]])

Scored(section, score) ==
  [doc_path |-> section.doc_path, tier |-> section.tier, heading |-> section.heading,
   content |-> section.content, anchor |-> section.anchor, final_score |-> score]

\* the first section of every document, in order, at most top_k of them
RECURSIVE DistinctDocs(_, _, _)
DistinctDocs(scored, seen, top_k) ==
  IF scored = <<>> \/ top_k = 0 THEN <<>>
  ELSE IF scored[1].doc_path \in seen THEN DistinctDocs(Tail(scored), seen, top_k)
  ELSE <<scored[1]>> \o DistinctDocs(Tail(scored), seen \cup {scored[1].doc_path}, top_k - 1)

\* retrieval.py vector_retrieve_candidates (lines 138-163): the neighbours of
\* the request among the vectors of the index, nearest first, each giving the
\* metadata record of its row
vector_retrieve_candidates(emb, meta) ==
  IF meta = <<>> THEN <<>>
  ELSE LET rows == SortByFinalScore([i \in 1..Len(emb) |->
                     [idx |-> i, final_score |-> vector_score(emb[i])]])
       IN [k \in 1..Len(rows) |-> Scored(meta[rows[k].idx], rows[k].final_score)]

\* retrieval.py retrieve (lines 209-318) for a request text without a
\* troubleshooting phrase; the result is the candidates and the ranked top-K
retrieve(all_sections, top_k, retriever_type, index_bundle) ==
  IF retriever_type = "keyword"
  THEN LET scored == SortByFinalScore([i \in 1..Len(all_sections) |->
                       Scored(all_sections[i], score_section(all_sections[i]))])
           top == Take(scored, top_k)
           fallback == DistinctDocs(scored, {}, top_k)
       IN [scored |-> SeqToSet(all_sections), candidates |-> scored,
           top |-> IF /\ \A i \in 1..Len(top) : top[i].final_score = 0
                      /\ Len(scored) > top_k /\ fallback # <<>>
                   THEN fallback ELSE top]
  ELSE LET candidates == vector_retrieve_candidates(index_bundle.emb, index_bundle.meta)
           kw_max == MaxScore([i \in 1..Len(candidates) |->
                                 [score |-> score_section(candidates[i])]])
           hybrid == SortByFinalScore([i \in 1..Len(candidates) |->
                       [candidates[i] EXCEPT !.final_score =
                          7 * (IF kw_max = 0 THEN 0
                               ELSE (10 * score_section(candidates[i])) \div kw_max)
                          + 3 * candidates[i].final_score]])
       IN IF retriever_type = "vector"
          THEN [scored |-> {}, candidates |-> candidates, top |-> Take(candidates, top_k)]
          ELSE [scored |-> SeqToSet(candidates), candidates |-> candidates,
                top |-> Take(hybrid, top_k)]

\* run.py _citations_from_retrieved (lines 1308-1313)
_citations_from_retrieved(retrieved) ==
  [i \in 1..Len(retrieved) |-> Citation(retrieved[i])]

\* ====================================================== vector index cache
ModelName == "all-MiniLM-L6-v2"

\* "_".join(sorted(tiers)) or "none"
JoinTiers(tiers) ==
  CASE tiers = {} -> "none"
    [] tiers = {"internal"} -> "internal"
    [] tiers = {"public"} -> "public"
    [] tiers = {"restricted"} -> "restricted"
    [] tiers = {"internal", "public"} -> "internal_public"
    [] tiers = {"internal", "restricted"} -> "internal_restricted"
    [] tiers = {"public", "restricted"} -> "public_restricted"
    [] OTHER -> "internal_public_restricted"

TiersOf(sections) == {sections[i].tier : i \in 1..Len(sections)}

\* variant: the tiers do not enter the key
CacheKeyWithoutTiers(sections, model_name) ==
  [tier_key |-> "none", model |-> model_name, n |-> Len(sections)]

\* retrieval.py _acl_cache_key (lines 59-64)
_acl_cache_key(sections, model_name) ==
  [tier_key |-> JoinTiers(TiersOf(sections)), model |-> model_name, n |-> Len(sections)]

\* retrieval.py _sections_fingerprint (lines 46-56); sha1 is taken to be
\* free of collisions, so a digest is named by what was digested
_sections_fingerprint(sections) ==
  [i \in 1..Len(sections) |->
     <<sections[i].doc_path, sections[i].anchor, sections[i].content.head,
       BodyLen(sections[i].content)>>]

\* line 87: the metadata of the sections
MetaOf(sections) ==
  [i \in 1..Len(sections) |->
     [doc_path |-> sections[i].doc_path, tier |-> sections[i].tier,
      heading |-> sections[i].heading, content |-> sections[i].content,
      anchor |-> sections[i].anchor]]

\* line 116: the texts that are embedded, one vector per section; a vector is
\* named by the section whose text it embeds
EmbeddingsOf(sections) == MetaOf(sections)

\* the files of the cache directory
File(kind, key, build, data) == [kind |-> kind, key |-> key, build |-> build, data |-> data]
Exists(files, kind, key) == \E f \in files : f.kind = kind /\ f.key = key
ReadFile(files, kind, key) == CHOOSE f \in files : f.kind = kind /\ f.key = key
WriteFile(files, f) == {g \in files : ~(g.kind = f.kind /\ g.key = f.key)} \cup {f}

NoFile == File("none", _acl_cache_key(<<>>, ModelName), 0, <<>>)
NoBundle == [emb |-> <<>>, meta |-> <<>>, info |-> NoFile, builds |-> <<0, 0, 0>>]

\* one request: its inputs, the locals of build_or_load_vector_index and
\* retrieve, and what it returned
RetrIdleRequest ==
  [pc |-> "idle", role |-> "", retriever |-> "", rebuild |-> FALSE, top_k |-> 0,
   sections |-> <<>>, key |-> _acl_cache_key(<<>>, ModelName), meta |-> <<>>, build |-> 0, info |-> NoFile, emb |-> NoFile,
   hit |-> FALSE, bundle |-> NoBundle,
   scored |-> {}, candidates |-> <<>>, top |-> <<>>, citations |-> <<>>]

RetrIdle == [p \in IndexProcs |-> RetrIdleRequest]

DocFile(tier, heading, body) == [tier |-> tier, heading |-> heading, body |-> body]

InitialDocs ==
  {("a.md" :> DocFile("public", "VPN Fix", DocBody("h1", "t1")))
     @@ ("b.md" :> DocFile(tb, "VPN Fix", DocBody("h2", "t1"))) : tb \in {"restricted"}}

CacheIdle == [files |-> {}, docs |-> <<>>, edits |-> 0, builds |-> 0]

\* the three files a finished build of the sections leaves (lines 113-128)
BuiltFiles(sections, build) ==
  LET key == _acl_cache_key(sections, ModelName) IN
  {File("npz", key, build, EmbeddingsOf(sections)),
   File("meta", key, build, MetaOf(sections)),
   File("info", key, build,
        [model_name |-> ModelName, num_sections |-> key.n,
         fingerprint |-> _sections_fingerprint(sections),
         tier_key |-> key.tier_key])}

\* the cache directory at the start: empty, or left by an earlier run of one
\* role over the same runbooks
InitialCaches(docs) ==
  {[CacheIdle EXCEPT !.docs = docs]}
    \cup {[CacheIdle EXCEPT !.docs = docs, !.builds = 1,
             !.files = BuiltFiles(load_allowed_documents(ROLE_TIER_MAP(role), docs), 1)] :
            role \in RequesterRoles}

\* ================================================================== state
VARIABLES
  labels,       \* tracker: the issue's labels
  assignees,    \* tracker: the issue's assignees
  comments,     \* tracker: the issue's comments, oldest first
  audit,        \* workflows/audit_log.jsonl, one record per line
  returns,      \* what each finished run returned, with the calls it made
  effects,      \* writes the tracker accepted, in order: [run, op]
  run,          \* per delivery: position and locals of its execute run
  runsStarted,  \* number of execute runs started so far
  envPosted,    \* number of comments users posted so far
  gate,         \* policy gate: the request being classified
  guard,        \* proposal guard: the proposal being merged
  synth,        \* evidence synthesizer: the answer being built
  retr,         \* retrieval engine: the query being answered
  cache,        \* vector index cache: files on disk and the calls using them
  rank,         \* retrieval engine: the passages being ranked, and the rankings
  prop          \* propose stage: position and locals of its run on the issue

\* ====================================================== ranking of passages
\* Scores are integers: a keyword score counts half points (score_section adds
\* whole points for the body and half points for the heading), a vector score
\* and a bias count hundredths, hybrid_alpha counts tenths.
MaxPool == 3
MaxTopK == 2
BIAS_POSITIVE == 15
BIAS_NEGATIVE == 0 - 10
HYBRID_ALPHA == 7

\* what a heading with its file name holds of the troubleshooting phrases:
\* one of the positive ones ("verify"), one of the negative ones
\* ("overview"), or neither
Styles == {"plain", "verify", "overview"}
KeywordScores == {0, 4, 5}
VectorScores == {50, 90}
Alphas == {0, 10}

\* retrieval.py _section_troubleshoot_bias (lines 187-198)
_section_troubleshoot_bias(section) ==
  (IF section.heading = "verify" THEN BIAS_POSITIVE ELSE 0)
    + (IF section.heading = "overview" THEN BIAS_NEGATIVE ELSE 0)

\* a passage of a pool: idx is its place in the pool as retrieve receives it
Passage(idx, doc_path, heading, keyword_score, vscore) ==
  [idx |-> idx, doc_path |-> doc_path, heading |-> heading,
   keyword_score |-> keyword_score, vscore |-> vscore]

\* a final score: whole + eps * 1e-9 times a factor shared by the whole pool,
\* so that two final scores compare as the pairs do
Fused(whole, eps) == [whole |-> whole, eps |-> eps]

Above(x, y) == x.whole > y.whole \/ (x.whole = y.whole /\ x.eps > y.eps)

\* list.sort(key=final_score, reverse=True) for final scores that are pairs:
\* stable, best first; an element goes behind the elements above it and the
\* earlier elements of the same score
SortByFused(xs) ==
  LET place == [i \in 1..Len(xs) |->
                  1 + Cardinality({j \in 1..Len(xs) :
                        \/ Above(xs[j].final_score, xs[i].final_score)
                        \/ j < i /\ xs[j].final_score = xs[i].final_score})]
  IN [k \in 1..Len(xs) |-> xs[CHOOSE i \in 1..Len(xs) : place[i] = k]]

\* max(keyword_score for c in candidates, default=0)
KwMax(candidates) ==
  IF candidates = <<>> THEN 0
  ELSE LET i == CHOOSE i \in 1..Len(candidates) :
                  \A j \in 1..Len(candidates) :
                    candidates[j].keyword_score <= candidates[i].keyword_score
       IN candidates[i].keyword_score

\* variant: the weights of the two scores are exchanged
FinalScoreSwapped(c, kw_max, hybrid_alpha, intent) ==
  LET lin == hybrid_alpha * c.vscore
               + (IF intent THEN 10 * _section_troubleshoot_bias(c) ELSE 0)
  IN Fused(100 * (10 - hybrid_alpha) * c.keyword_score + lin * kw_max, lin)

\* retrieval.py retrieve, lines 291-299: with kw_max = max + 1e-9,
\*   final = alpha * kw / kw_max + (1 - alpha) * vs + bias
\* and, times 1000 * kw_max, which is positive and the same for the pool,
\*   100*alpha*kw + lin * max + lin * 1e-9   with lin = (1-alpha)*vs + bias
FinalScore(c, kw_max, hybrid_alpha, intent) ==
  LET lin == (10 - hybrid_alpha) * c.vscore
               + (IF intent THEN 10 * _section_troubleshoot_bias(c) ELSE 0)
  IN Fused(100 * hybrid_alpha * c.keyword_score + lin * kw_max, lin)

\* retrieval.py retrieve, the hybrid branch (lines 289-302) on the candidates
\* of vector_retrieve_candidates, nearest first
hybrid_rank(candidates, top_k, hybrid_alpha, intent) ==
  LET kw_max == KwMax(candidates)
      sorted == SortByFused([i \in 1..Len(candidates) |->
                  [idx |-> candidates[i].idx, doc_path |-> candidates[i].doc_path,
                   heading |-> candidates[i].heading,
                   keyword_score |-> candidates[i].keyword_score,
                   vscore |-> candidates[i].vscore,
                   final_score |-> FinalScore(candidates[i], kw_max, hybrid_alpha, intent)]])
  IN [retriever_type |-> "hybrid", hybrid_alpha |-> hybrid_alpha,
      candidates |-> sorted, top |-> Take(sorted, top_k), fallback |-> FALSE]

\* variant: the fallback walks the passages in the order they were loaded
FallbackInLoadOrder(all_sections, scored, top_k) ==
  LET pos == [i \in 1..Len(all_sections) |->
                CHOOSE k \in 1..Len(scored) : scored[k].idx = all_sections[i].idx]
  IN DistinctDocs([i \in 1..Len(all_sections) |-> scored[pos[i]]], {}, top_k)

\* retrieval.py retrieve, lines 252-261: the fallback walks the sorted list
Fallback(all_sections, scored, top_k) == DistinctDocs(scored, {}, top_k)

\* retrieval.py retrieve, the keyword branch (lines 240-263); a final score
\* is keyword_score + bias, here in hundredths
keyword_rank(all_sections, top_k, intent) ==
  LET scored == SortByFinalScore([i \in 1..Len(all_sections) |->
                  [idx |-> all_sections[i].idx, doc_path |-> all_sections[i].doc_path,
                   heading |-> all_sections[i].heading,
                   keyword_score |-> all_sections[i].keyword_score,
                   vscore |-> all_sections[i].vscore,
                   final_score |-> 50 * all_sections[i].keyword_score
                     + (IF intent THEN _section_troubleshoot_bias(all_sections[i]) ELSE 0)]])
      top == Take(scored, top_k)
      fallback == Fallback(all_sections, scored, top_k)
      taken == /\ \A i \in 1..Len(top) : top[i].final_score = 0
               /\ Len(scored) > top_k /\ fallback # <<>>
  IN [retriever_type |-> "keyword", hybrid_alpha |-> HYBRID_ALPHA,
      candidates |-> scored, top |-> IF taken THEN fallback ELSE top,
      fallback |-> taken]

RankIdle == [pool |-> <<>>, intent |-> FALSE, top_k |-> 0, ranked |-> {}]

\* a pool of n passages with headings h, keyword scores k, vector scores v
\* and documents d
Pool(n, h, k, v, d) == [i \in 1..n |-> Passage(i, d[i], h[i], k[i], v[i])]

\* vector_retrieve_candidates returns the nearest first
NearestFirst(n, v) == \A i \in 1..n, j \in 1..n : i < j => v[i] >= v[j]

\* load_allowed_documents returns the sections of a file one after the other
FileByFile(n, d) == \A i \in 1..n, j \in 1..n : (i < j /\ d[i] = "b.md") => d[j] = "b.md"

\* ============================================================ propose stage
MaxProposeRuns == 1

\* locals of the propose run on the issue: pc is the tracker call it makes
\* next, id counts the runs, phase tells whether the call belongs to the
\* propose stage proper or to the _apply_approved_actions it ends with
PropIdle ==
  [pc |-> "idle", id |-> 0, struct |-> None, phase |-> "propose",
   labels_arg |-> {}, merged |-> {}, executed |-> <<>>]

vars == <<labels, assignees, comments, audit, returns, effects, run,
          runsStarted, envPosted, gate, guard, synth, retr, cache, rank, prop>>

\* the tracker, the audit log and the execute runs
tracker == <<labels, assignees, comments, audit, returns, effects, run,
             runsStarted, envPosted>>

\* the stages of the propose pipeline
pipeline == <<gate, guard, synth, retr, cache, rank, prop>>

\* audit_record as _run_execute_stage creates it (lines 1484-1498)
NewAuditRecord ==
  [approval_status |-> "n/a", approval_actor_login |-> "",
   approval_actor_role |-> "", executed_actions |-> <<>>,
   execution_result |-> "n/a"]

\* _out(...) of _run_execute_stage (lines 1500-1509)
_out(approval_status, approval_actor_login, approval_actor_role, executed_actions, execution_result) ==
  [approval_status |-> approval_status,
   approval_actor_login |-> approval_actor_login,
   approval_actor_role |-> approval_actor_role,
   executed_actions |-> executed_actions,
   execution_result |-> execution_result]

NoDecision == Decision("", "", "", "", FALSE)

\* locals of a run: pc is the tracker call it makes next; seen tells whether
\* its first label read found the executed marker; snap is the length of the
\* comment list it was given (-1 before list_comments returned)
IdleRun ==
  [pc |-> "idle", id |-> 0, audit_record |-> NewAuditRecord, struct |-> None,
   decision |-> NoDecision, executed |-> <<>>, labels_arg |-> {},
   merged |-> {}, calls |-> <<>>, seen |-> "unread", snap |-> -1]

\* The issue is new, or an earlier execution already marked it.
InitialLabels == {{}, {"cat:Access", "prio:Low", StatusExecuted}}

\* The issue has no comment yet, or the propose stage posted its plan for an
\* Access request, or a user posted a plan written by hand.
InitialComments ==
  {<<>>, <<Comment(BotLogin, Body(<<PlanTitlePending>>, StructL2))>>,
   <<Comment("bob", Body(<<PlanTitlePending>>, StructOdd))>>}

Init ==
  /\ labels \in InitialLabels
  /\ assignees = {}
  /\ comments \in InitialComments
  /\ audit = <<>>
  /\ returns = <<>>
  /\ effects = <<>>
  /\ run = [p \in Procs |-> IdleRun]
  /\ runsStarted = 0
  /\ envPosted = 0
  /\ gate = GateIdle
  /\ guard = GuardIdle
  /\ synth = SynthIdle
  /\ retr = RetrIdle
  /\ cache = CacheIdle
  /\ rank = RankIdle
  /\ prop = PropIdle

\* ------------------------------------------------------------------ audit
\* audit.append_jsonl: one line appended
append_jsonl(log, record) == Append(log, record)

\* run.py _finalize_audit: set latency, append the record once
_finalize_audit(log, id, audit_record) ==
  append_jsonl(log, [run |-> id] @@ audit_record)

\* The run with locals r finalizes audit_record and returns out; raised tells
\* whether it returns from the exception handler, decided is the value its
\* local execution_result had then.
Return(p, r, audit_record, out, raised) ==
  /\ audit' = _finalize_audit(audit, r.id, audit_record)
  /\ returns' = Append(returns,
                  [run |-> r.id, out |-> out, calls |-> r.calls,
                   seen |-> r.seen, snap |-> r.snap, raised |-> raised,
                   decided |-> r.decision.execution_result])
  /\ run' = [run EXCEPT ![p] = IdleRun]

\* variant: the exception handler returns without finalizing the audit
RaiseNoAudit(p, r) ==
  /\ audit' = audit
  /\ returns' = Append(returns,
                  [run |-> r.id, out |-> _out("rejected", "", "", <<>>, "error"),
                   calls |-> r.calls, seen |-> r.seen, snap |-> r.snap,
                   raised |-> TRUE, decided |-> r.decision.execution_result])
  /\ run' = [run EXCEPT ![p] = IdleRun]

\* except Exception (lines 1591-1596): the tracker call just made raised
Raise(p, r) ==
  Return(p, r,
         [r.audit_record EXCEPT !.execution_result = "error",
                                !.executed_actions = <<>>],
         _out("rejected", "", "", <<>>, "error"), TRUE)

\* lines 1582-1589 once no rejection comment is (any longer) to be posted:
\* the decided values go to the audit record and to the output
Finish(p, r, d, executed_actions) ==
  LET o == _out(d.approval_status, d.approval_actor_login,
                d.approval_actor_role, executed_actions, d.execution_result)
  IN Return(p, r, o, o, FALSE)

\* the run of p goes on with locals r
Continue(p, r) ==
  /\ run' = [run EXCEPT ![p] = r]
  /\ UNCHANGED <<audit, returns>>

Called(p, name) == [run[p] EXCEPT !.calls = Append(@, name)]

\* ----------------------------------------------------- execute stage steps
\* main(): a delivery of the execute webhook starts _run_execute_stage
Start(p) ==
  /\ run[p].pc = "idle"
  /\ runsStarted < Cardinality(Procs)
  /\ p = "d2" => run["d1"].pc # "idle"
  /\ runsStarted' = runsStarted + 1
  /\ run' = [run EXCEPT ![p] = [IdleRun EXCEPT !.pc = "get_issue_labels",
                                               !.id = runsStarted + 1]]
  /\ UNCHANGED <<labels, assignees, comments, audit, returns, effects, envPosted, pipeline>>

\* variant: the executed marker is not looked at
MarkerIgnored(current_labels) == FALSE

\* line 1513 and line 1451: "status:executed" in current_labels
AlreadyExecuted(current_labels) == StatusExecuted \in current_labels

\* lines 1512-1516: read the labels, short-circuit on the executed marker
GetIssueLabels(p) ==
  /\ run[p].pc = "get_issue_labels"
  /\ LET r0 == Called(p, "get_issue_labels")
         r == [r0 EXCEPT !.seen = IF StatusExecuted \in labels THEN "yes" ELSE "no"]
     IN
     \E ok \in BOOLEAN :
       IF ~ok THEN Raise(p, r0)
       ELSE IF AlreadyExecuted(labels)
       THEN Return(p, r,
                   [r.audit_record EXCEPT !.execution_result = "already_executed_noop"],
                   _out("n/a", "", "", <<>>, "already_executed_noop"), FALSE)
       ELSE Continue(p, [r EXCEPT !.pc = "list_comments"])
  /\ UNCHANGED <<labels, assignees, comments, effects, runsStarted, envPosted, pipeline>>

\* lines 1518-1589: list the comments, find plan and approval, decide
ListComments(p) ==
  /\ run[p].pc = "list_comments"
  /\ LET r0 == Called(p, "list_comments")
         r == [r0 EXCEPT !.snap = Len(comments)]
         found == _find_latest_proposed_plan_and_approve(comments)
     IN
     \E ok \in BOOLEAN :
       IF ~ok THEN Raise(p, r0)
       ELSE IF found.plan = 0
       THEN Continue(p,
              [r EXCEPT !.pc = "post_rejection",
                        !.audit_record.execution_result = "no_proposed_plan",
                        !.decision = Decision("n/a", "", "", "no_proposed_plan", FALSE)])
       ELSE IF found.struct = None
       THEN Continue(p,
              [r EXCEPT !.pc = "post_rejection",
                        !.audit_record.approval_status = "rejected",
                        !.audit_record.execution_result = "invalid_plan_format",
                        !.decision = Decision("rejected", "", "", "invalid_plan_format", FALSE)])
       ELSE IF IsFalse(Get(found.struct.needs_approval))
       THEN Finish(p, [r EXCEPT !.decision = Decision("n/a", "", "", "l1_noop", FALSE)],
                   Decision("n/a", "", "", "l1_noop", FALSE), <<>>)
       ELSE LET d == Decide(found.struct, found.approve # 0,
                            IF found.approve # 0
                            THEN comments[found.approve].login ELSE "")
            IN
            IF d.apply
            THEN Continue(p, [r EXCEPT !.pc = "apply_get_issue_labels",
                                       !.struct = found.struct, !.decision = d])
            ELSE IF PostsRejection(d.execution_result)
            THEN Continue(p, [r EXCEPT !.pc = "post_rejection", !.decision = d])
            ELSE Finish(p, [r EXCEPT !.decision = d], d, <<>>)
  /\ UNCHANGED <<labels, assignees, comments, effects, runsStarted, envPosted, pipeline>>

\* _maybe_post_rejection_comment (lines 1523, 1530, 1582) and the return
\* that follows it
PostRejection(p) ==
  /\ run[p].pc = "post_rejection"
  /\ LET r == Called(p, "post_comment")
         d == r.decision
     IN
     \E ok \in BOOLEAN :
       IF ~ok
       THEN Raise(p, r) /\ UNCHANGED <<comments, effects>>
       ELSE /\ comments' = Append(comments,
                 Comment(BotLogin,
                         Body(_rejection_comment_message(d.execution_result), NoBlock)))
            /\ effects' = Append(effects, [run |-> r.id, op |-> "post_rejection"])
            /\ Finish(p, r, d, <<>>)
  /\ UNCHANGED <<labels, assignees, runsStarted, envPosted, pipeline>>

\* _apply_approved_actions, lines 1450-1454: re-read the labels
ApplyGetIssueLabels(p) ==
  /\ run[p].pc = "apply_get_issue_labels"
  /\ LET r == Called(p, "get_issue_labels")
         items == Get(r.struct.labels_to_add).items
         base_labels == {lb \in SeqToSet(items) : ~StartsWithStatus(lb)}
     IN
     \E ok \in BOOLEAN :
       IF ~ok THEN Raise(p, r)
       ELSE IF AlreadyExecuted(labels)
       THEN Finish(p, r, [r.decision EXCEPT !.execution_result = "already_approved_skip"], <<>>)
       ELSE Continue(p, [r EXCEPT !.pc = "add_labels_get",
                                  !.labels_arg = base_labels \cup {StatusExecuted}])
  /\ UNCHANGED <<labels, assignees, comments, effects, runsStarted, envPosted, pipeline>>

\* github_bot.add_labels, lines 127-137: GET the issue, strip the labels of
\* the removed prefixes, merge
AddLabelsGet(p) ==
  /\ run[p].pc = "add_labels_get"
  /\ LET r == Called(p, "add_labels")
         existing == {name \in labels : ~StartsWithStatus(name)}
     IN
     \E ok \in BOOLEAN :
       IF ~ok THEN Raise(p, r)
       ELSE Continue(p, [r EXCEPT !.pc = "add_labels_patch",
                                  !.merged = existing \cup r.labels_arg])
  /\ UNCHANGED <<labels, assignees, comments, effects, runsStarted, envPosted, pipeline>>

\* github_bot.add_labels, line 138: PATCH the merged list; then lines 1458-1459
AddLabelsPatch(p) ==
  /\ run[p].pc = "add_labels_patch"
  /\ LET r == run[p] IN
     \E ok \in BOOLEAN :
       IF ~ok
       THEN Raise(p, r) /\ UNCHANGED <<labels, effects>>
       ELSE /\ labels' = r.merged
            /\ effects' = Append(effects, [run |-> r.id, op |-> "add_labels"])
            /\ Continue(p, [r EXCEPT
                 !.executed = Append(@, "add_labels"),
                 !.pc = IF r.struct.assignees.t = "list" /\ r.struct.assignees.items # <<>>
                        THEN "add_assignees" ELSE "post_executed"])
  /\ UNCHANGED <<assignees, comments, runsStarted, envPosted, pipeline>>

\* github_bot.add_assignees (lines 144-153) and line 1461
AddAssignees(p) ==
  /\ run[p].pc = "add_assignees"
  /\ LET r == Called(p, "add_assignees") IN
     \E ok \in BOOLEAN :
       IF ~ok
       THEN Raise(p, r) /\ UNCHANGED <<assignees, effects>>
       ELSE /\ assignees' = assignees \cup SeqToSet(r.struct.assignees.items)
            /\ effects' = Append(effects, [run |-> r.id, op |-> "add_assignees"])
            /\ Continue(p, [r EXCEPT !.executed = Append(@, "add_assignees"),
                                     !.pc = "post_executed"])
  /\ UNCHANGED <<labels, comments, runsStarted, envPosted, pipeline>>

\* lines 1462-1466, then 1569/1577 and 1582-1589
PostExecuted(p) ==
  /\ run[p].pc = "post_executed"
  /\ LET r == Called(p, "post_comment") IN
     \E ok \in BOOLEAN :
       IF ~ok
       THEN Raise(p, r) /\ UNCHANGED <<comments, effects>>
       ELSE /\ comments' = Append(comments,
                 Comment(BotLogin,
                         Body(<<"## Executed actions", "\n">> \o r.executed, NoBlock)))
            /\ effects' = Append(effects, [run |-> r.id, op |-> "post_executed"])
            /\ Finish(p, r,
                      [r.decision EXCEPT !.execution_result =
                         IF r.executed = <<>> THEN "already_approved_skip" ELSE "success"],
                      r.executed)
  /\ UNCHANGED <<labels, assignees, runsStarted, envPosted, pipeline>>

\* ----------------------------------------------------------- environment
\* a user posts a comment on the issue (comments no run will read any more
\* are left out)
PostUserComment(c) ==
  /\ envPosted < MaxEnvComments
  /\ \/ runsStarted < Cardinality(Procs)
     \/ \E p \in Procs : run[p].pc \in {"get_issue_labels", "list_comments"}
  /\ envPosted' = envPosted + 1
  /\ comments' = Append(comments, c)
  /\ UNCHANGED <<labels, assignees, audit, returns, effects, run, runsStarted, pipeline>>

\* _build_answer_and_actions: triage of the request text
Triage ==
  /\ gate.stage = "request"
  /\ gate' = [gate EXCEPT !.stage = "triaged",
                          !.triage = triage_issue(gate.text, gate.urgency, gate.source)]

\* _build_answer_and_actions: the struct is built from the triage
BuildStruct ==
  /\ gate.stage = "triaged"
  /\ gate' = [gate EXCEPT !.stage = "built",
                          !.struct = build_proposed_actions_struct(gate.triage,
                                                                   gate.proposed_actions)]

Next ==
  \/ \E p \in Procs : Start(p)
  \/ \E p \in Procs : GetIssueLabels(p)
  \/ \E p \in Procs : ListComments(p)
  \/ \E p \in Procs : PostRejection(p)
  \/ \E p \in Procs : ApplyGetIssueLabels(p)
  \/ \E p \in Procs : AddLabelsGet(p)
  \/ \E p \in Procs : AddLabelsPatch(p)
  \/ \E p \in Procs : AddAssignees(p)
  \/ \E p \in Procs : PostExecuted(p)
  \/ \E c \in EnvComments : PostUserComment(c)

Spec == Init /\ [][Next]_vars

\* ---------------------------------------------- the policy gate on its own
InitGate ==
  /\ labels = {}
  /\ assignees = {}
  /\ comments = <<>>
  /\ audit = <<>>
  /\ returns = <<>>
  /\ effects = <<>>
  /\ run = [p \in Procs |-> IdleRun]
  /\ runsStarted = 0
  /\ envPosted = 0
  /\ gate \in GateInputs
  /\ guard = GuardIdle
  /\ synth = SynthIdle
  /\ retr = RetrIdle
  /\ cache = CacheIdle
  /\ rank = RankIdle
  /\ prop = PropIdle

NextGate ==
  /\ Triage \/ BuildStruct
  /\ UNCHANGED <<labels, assignees, comments, audit, returns, effects, run,
                 runsStarted, envPosted, guard, synth, retr, cache, rank, prop>>

SpecGate == InitGate /\ [][NextGate]_vars

\* ================================================================= claims
\* Every execute run seen so far, finished or not: its id, the tracker calls
\* it made, what its first label read found, the length of the comment list
\* it was given, and what it returned.
NoOut == _out("", "", "", <<>>, "")

RunViews ==
  {[id |-> run[p].id, calls |-> run[p].calls, seen |-> run[p].seen,
    snap |-> run[p].snap, done |-> FALSE, raised |-> FALSE,
    decided |-> run[p].decision.execution_result, out |-> NoOut] :
     p \in {q \in Procs : run[q].pc # "idle"}}
  \cup
  {[id |-> returns[i].run, calls |-> returns[i].calls, seen |-> returns[i].seen,
    snap |-> returns[i].snap, done |-> TRUE, raised |-> returns[i].raised,
    decided |-> returns[i].decided, out |-> returns[i].out] :
     i \in 1..Len(returns)}

\* the comment list a run was given (comments are only ever appended)
Snapshot(v) == SubSeq(comments, 1, v.snap)

Calls(v, name) == {k \in 1..Len(v.calls) : v.calls[k] = name}

Effects(id, op) == {k \in 1..Len(effects) : effects[k].run = id /\ effects[k].op = op}

\* the run wrote nothing to the issue's labels or assignees
NoMutation(v) ==
  /\ Calls(v, "add_labels") = {}
  /\ Calls(v, "add_assignees") = {}
  /\ Effects(v.id, "add_labels") = {}
  /\ Effects(v.id, "add_assignees") = {}

\* positions of the comments written by the bot in the run's rejection
BotComments(toks) ==
  {k \in 1..Len(comments) : comments[k].login = BotLogin /\ comments[k].body.toks = toks}

\* the audit records a run appended
AuditOf(id) == {i \in 1..Len(audit) : audit[i].run = id}

\* C1: an execute run whose first label read finds status:executed returns
\* already_executed_noop at once: it has called get_issue_labels and nothing
\* else (no list_comments, post_comment, add_labels, add_assignees), the
\* tracker accepted no write from it, and its output and its audit record are
\* the same for every such run.  A run whose first label read raises calls
\* nothing else either.
C1_AlreadyExecutedNoop ==
  \A v \in RunViews :
    /\ v.seen = "yes" =>
         /\ v.done
         /\ v.out = _out("n/a", "", "", <<>>, "already_executed_noop")
         /\ v.calls = <<"get_issue_labels">>
         /\ \A k \in 1..Len(effects) : effects[k].run # v.id
         /\ \A i \in AuditOf(v.id) :
              audit[i] = [run |-> v.id] @@
                         [NewAuditRecord EXCEPT !.execution_result = "already_executed_noop"]
    /\ v.seen = "unread" /\ v.done =>
         /\ v.calls = <<"get_issue_labels">>
         /\ \A k \in 1..Len(effects) : effects[k].run # v.id

\* an execution succeeded and a later run found the marker
C1_Witness ==
  \E v, w \in RunViews :
    /\ v.done /\ v.out.execution_result = "success"
    /\ w.id > v.id /\ w.seen = "yes" /\ w.done

\* C4: every execute run appends exactly one audit record: none while it is
\* running, one once it has returned, whatever path it took.
C4_OneAuditRecordPerRun ==
  /\ \A i \in 1..Len(audit) : audit[i].run \in 1..runsStarted
  /\ \A id \in 1..runsStarted :
       Cardinality(AuditOf(id)) =
         IF \E p \in Procs : run[p].pc # "idle" /\ run[p].id = id THEN 0 ELSE 1

\* a run whose rejection comment could not be posted has returned "error" and
\* left its one record
C4_Witness ==
  \E v \in RunViews :
    /\ v.done /\ v.raised
    /\ v.calls = <<"get_issue_labels", "list_comments", "post_comment">>
    /\ \E i \in AuditOf(v.id) : audit[i].execution_result = "error"

\* ------------------------------------------- reading of a comment list
\* i is the last comment of cs that carries a plan title
LatestPlanAt(cs, i) ==
  /\ i \in 1..Len(cs)
  /\ HasPlanMarker(cs[i].body)
  /\ \A j \in (i + 1)..Len(cs) : ~HasPlanMarker(cs[j].body)

\* the body is the word APPROVE in any letter case, with nothing but white
\* space around it
ExactApprove(body) ==
  /\ body.block.kind = "absent"
  /\ \E k \in 1..Len(body.toks) :
       /\ body.toks[k] \in {"APPROVE", "approve", "Approve"}
       /\ \A j \in 1..Len(body.toks) : j # k => body.toks[j] \in {" ", "\n"}

\* a is the last exact APPROVE of cs after position i
LatestApproveAt(cs, i, a) ==
  /\ a \in (i + 1)..Len(cs)
  /\ ExactApprove(cs[a].body)
  /\ \A b \in (a + 1)..Len(cs) : ~ExactApprove(cs[b].body)

\* needs_approval is true as Python tests it
NeedsApproval(struct) == Truthy(Get(struct.needs_approval))

\* the role the decision table asks of the approver of a plan
RoleSatisfies(role, struct) ==
  IF struct.risk_level = JStr("L2")
  THEN role = "IT Admin"
  ELSE role \in {"Engineer", "IT Admin"}

\* cs holds a validated approval: its latest plan parses and needs approval,
\* and the latest APPROVE after it comes from a directory user whose role
\* satisfies the plan's requirement
ValidatedApproval(cs) ==
  \E i \in 1..Len(cs) : \E a \in 1..Len(cs) :
    /\ LatestPlanAt(cs, i)
    /\ LatestApproveAt(cs, i, a)
    /\ LET struct == _parse_proposed_plan_struct_from_comment(cs[i].body)
           login == Lower(cs[a].login)
       IN /\ struct # None
          /\ NeedsApproval(struct)
          /\ login \in DirectoryLogins
          /\ RoleSatisfies(by_github_username(login), struct)

\* C2: an execute run calls add_labels or add_assignees, and the tracker
\* accepts a label or assignee write from it, only if the comment list it was
\* given holds a validated approval: the latest plan parsed, its
\* needs_approval is true (as Python tests it), an APPROVE follows it, and the
\* author of the latest such APPROVE is in the directory with a role that the
\* decision table accepts for the plan.  On every other path (no plan,
\* unparsable plan, no approval, unresolved or unauthorized approver, a
\* tracker call that raised) the run writes no label and no assignee.
C2_NoSideEffectWithoutApproval ==
  \A v \in RunViews :
    ~NoMutation(v) => v.snap >= 0 /\ ValidatedApproval(Snapshot(v))

\* labels and an assignee were written after an Engineer approved an L1 plan
C2_Witness ==
  \E v \in RunViews :
    /\ Effects(v.id, "add_labels") # {}
    /\ Effects(v.id, "add_assignees") # {}
    /\ "bob" \in assignees
    /\ StatusExecuted \in labels

\* C3: across all execute runs of an issue add_labels, add_assignees and the
\* "Executed actions" comment are applied at most once each.
C3_AtMostOnce ==
  \A op \in {"add_labels", "add_assignees", "post_executed"} :
    Cardinality({k \in 1..Len(effects) : effects[k].op = op}) <= 1

\* C5: when the parsed plan asks for approval and its approval_role_required
\* is "IT Admin", a run writes labels or assignees only if the approver's
\* directory role is exactly IT Admin, whatever the plan's risk_level.
C5_RoleRequiredFieldDecides ==
  \A v \in RunViews :
    ~NoMutation(v) =>
      \A i \in 1..v.snap : \A a \in 1..v.snap :
        LET cs == Snapshot(v)
            struct == _parse_proposed_plan_struct_from_comment(cs[i].body)
        IN (/\ LatestPlanAt(cs, i)
            /\ LatestApproveAt(cs, i, a)
            /\ struct # None
            /\ NeedsApproval(struct)
            /\ struct.approval_role_required = JStr("IT Admin"))
           => by_github_username(Lower(cs[a].login)) = "IT Admin"

\* a finished run returned the code, or "error" from the exception handler
Reported(v, code) ==
  v.done => v.out.execution_result = IF v.raised THEN "error" ELSE code

\* C6: when the latest plan comment of the list a run was given does not
\* parse, the run decides invalid_plan_format and returns it (or "error" when
\* posting the rejection comment raised), and never calls add_labels or
\* add_assignees, whatever follows the plan and whatever older plans the list
\* holds.
C6_UnparsablePlanNeverExecutes ==
  \A v \in RunViews :
    \A i \in 1..v.snap :
      (/\ LatestPlanAt(Snapshot(v), i)
       /\ _parse_proposed_plan_struct_from_comment(Snapshot(v)[i].body) = None)
      => /\ v.decided = "invalid_plan_format"
         /\ Reported(v, "invalid_plan_format")
         /\ v.done /\ ~v.raised => v.out.approval_status = "rejected"
         /\ NoMutation(v)

\* invalid_plan_format was returned for a list that holds a parsable plan,
\* then an unparsable one, then the APPROVE of an IT Admin
C6_Witness ==
  \E v \in RunViews :
    /\ v.done /\ v.out.execution_result = "invalid_plan_format"
    /\ v.snap >= 3
    /\ \E i, j, a \in 1..v.snap :
         /\ i < j /\ j < a
         /\ HasPlanMarker(comments[i].body)
         /\ _parse_proposed_plan_struct_from_comment(comments[i].body) # None
         /\ LatestPlanAt(Snapshot(v), j)
         /\ LatestApproveAt(Snapshot(v), j, a)
         /\ comments[a].login = "Alice"

\* the code the decision table gives for an approver and a parsed plan that
\* needs approval; "" when the approver is accepted
RejectionFor(login, struct) ==
  LET role == by_github_username(Lower(login)) IN
  IF Lower(login) \notin DirectoryLogins THEN "approver_not_in_directory"
  ELSE IF role = "Employee" THEN "rejected_employee_approval"
  ELSE IF struct.risk_level = JStr("L2") /\ role # "IT Admin"
  THEN "rejected_l2_requires_it_admin"
  ELSE IF struct.risk_level # JStr("L2") /\ role \notin {"Engineer", "IT Admin"}
  THEN "rejected_l1_requires_engineer_or_admin"
  ELSE ""

\* C7: for a run given a list whose latest plan parses and needs approval and
\* has an APPROVE after it: an author absent from the directory is decided
\* approver_not_in_directory; an Employee rejected_employee_approval, for L2
\* and non-L2 plans alike; another role that is not IT Admin on an L2 plan
\* rejected_l2_requires_it_admin; another role outside {Engineer, IT Admin}
\* on a non-L2 plan rejected_l1_requires_engineer_or_admin.  In each case the
\* run returns that code with approval_status "rejected" (or "error" when
\* posting the rejection comment raised) and writes no label or assignee.
C7_RejectionDecisionTable ==
  \A v \in RunViews :
    \A i \in 1..v.snap : \A a \in 1..v.snap :
      LET cs == Snapshot(v)
          struct == _parse_proposed_plan_struct_from_comment(cs[i].body)
          code == RejectionFor(cs[a].login, struct)
      IN (/\ LatestPlanAt(cs, i)
          /\ LatestApproveAt(cs, i, a)
          /\ struct # None
          /\ NeedsApproval(struct)
          /\ code # "")
         => /\ v.decided = code
            /\ Reported(v, code)
            /\ v.done /\ ~v.raised => v.out.approval_status = "rejected"
            /\ NoMutation(v)

\* one run rejected an approver the directory does not list, another one a
\* Contractor
C7_Witness ==
  \E v, w \in RunViews :
    /\ v.done /\ v.out.execution_result = "approver_not_in_directory"
    /\ v.out.approval_status = "rejected"
    /\ w.done /\ w.out.approval_status = "rejected"
    /\ w.out.execution_result \in {"rejected_l2_requires_it_admin",
                                   "rejected_l1_requires_engineer_or_admin"}
    /\ w.out.approval_actor_role = "Contractor"

\* the six rejection codes of the execute stage
SixCodes ==
  {"rejected_employee_approval", "rejected_l2_requires_it_admin",
   "rejected_l1_requires_engineer_or_admin", "approver_not_in_directory",
   "invalid_plan_format", "no_proposed_plan"}

\* the run's rejection comment is on the issue, posted once
Communicated(v) ==
  /\ Cardinality(Effects(v.id, "post_rejection")) = 1
  /\ Cardinality(Calls(v, "post_comment")) = 1
  /\ BotComments(_rejection_comment_message(v.decided)) # {}

\* the run's audit record carries the code
AuditedAs(v, code) ==
  \A i \in AuditOf(v.id) : audit[i].execution_result = code

\* C8 as stated: every finished run that decided one of the six rejection
\* codes is audited under that code and has posted its rejection comment.
C8_AlwaysAuditedAndCommunicated ==
  \A v \in RunViews :
    v.done /\ v.decided \in SixCodes =>
      AuditedAs(v, v.decided) /\ Communicated(v)

\* C8, amended: a finished run that decided one of the six rejection codes is
\* audited under that code and has posted one rejection comment whenever its
\* post_comment call succeeded; when that call raised, the run is audited as
\* "error" and has posted no rejection comment.  The six messages differ
\* pairwise, and a run returning success, already_executed_noop, l1_noop or
\* no_approval_found has posted no rejection comment.
C8_AuditedAndCommunicatedUnlessPostRaises ==
  /\ \A v \in RunViews :
       v.done /\ v.decided \in SixCodes =>
         IF v.raised
         THEN AuditedAs(v, "error") /\ Effects(v.id, "post_rejection") = {}
         ELSE AuditedAs(v, v.decided) /\ Communicated(v)
                /\ v.out.execution_result = v.decided
  /\ \A v \in RunViews :
       v.done /\ v.out.execution_result \in
                   {"success", "already_executed_noop", "l1_noop", "no_approval_found"}
         => Effects(v.id, "post_rejection") = {}
  /\ \A c1, c2 \in SixCodes :
       c1 # c2 => _rejection_comment_message(c1) # _rejection_comment_message(c2)

\* one run's rejection comment was posted, another run's post_comment raised
C8_Witness ==
  \E v, w \in RunViews :
    /\ v.done /\ ~v.raised /\ v.decided \in SixCodes /\ Communicated(v)
    /\ w.done /\ w.raised /\ w.decided \in SixCodes
    /\ w.calls = <<"get_issue_labels", "list_comments", "post_comment">>

NoPlanIn(cs) == \A k \in 1..Len(cs) : ~HasPlanMarker(cs[k].body)

\* C9: for every comment list the issue comes to have, oldest first, the finder
\* returns as plan the last comment with a plan marker and as approval the
\* last comment after it whose body is exactly APPROVE (any letter case,
\* white space around it ignored), never one at or before the plan; without
\* a plan marker it returns (None, None, None), and a run given such a list
\* decides no_proposed_plan and returns it (or "error" when posting the
\* rejection comment raised).
C9_LatestPlanThenLatestApprove ==
  /\ LET cs == comments
         found == _find_latest_proposed_plan_and_approve(cs)
     IN /\ found.plan = 0 <=> NoPlanIn(cs)
        /\ found.plan = 0 => found.struct = None /\ found.approve = 0
        /\ found.plan # 0 => LatestPlanAt(cs, found.plan)
        /\ found.approve # 0 => LatestApproveAt(cs, found.plan, found.approve)
        /\ found.plan # 0 /\ found.approve = 0 =>
             \A k \in (found.plan + 1)..Len(cs) : ~ExactApprove(cs[k].body)
  /\ \A v \in RunViews :
       v.snap >= 0 /\ NoPlanIn(Snapshot(v)) =>
         v.decided = "no_proposed_plan" /\ Reported(v, "no_proposed_plan")

\* a plan was posted again after an APPROVE and the run found no approval;
\* another run, given a list without a plan, reported no_proposed_plan
C9_Witness ==
  \E v, w \in RunViews :
    /\ v.done /\ v.snap = 0 /\ v.out.execution_result = "no_proposed_plan"
    /\ w.done /\ w.out.execution_result = "no_approval_found"
    /\ \E a, i \in 1..w.snap :
         /\ a < i
         /\ ExactApprove(comments[a].body)
         /\ comments[a].login = "Alice"
         /\ LatestPlanAt(Snapshot(w), i)
         /\ _find_latest_proposed_plan_and_approve(Snapshot(w)).approve = 0

\* C10: the struct built from a triage has risk_level L2, needs_approval true
\* and approval_role_required "IT Admin" when the category is Access, and
\* risk_level L1, needs_approval false and auto_execute true for every other
\* category; its labels_to_add holds status:pending-approval exactly when
\* needs_approval is true and status:triaged exactly when it is false.  No
\* built struct has risk L2 with needs_approval false, or needs_approval true
\* with a status:triaged label.
C10_PolicyGateMapping ==
  gate.stage = "built" =>
    LET st == gate.struct
        lbs == SeqToSet(st.labels_to_add)
    IN /\ gate.triage.category = "Access" =>
            /\ st.risk_level = "L2"
            /\ st.needs_approval = TRUE
            /\ st.approval_role_required = "IT Admin"
       /\ gate.triage.category # "Access" =>
            /\ st.risk_level = "L1"
            /\ st.needs_approval = FALSE
            /\ st.auto_execute = TRUE
       /\ "status:pending-approval" \in lbs <=> st.needs_approval
       /\ "status:triaged" \in lbs <=> ~st.needs_approval
       /\ ~(st.risk_level = "L2" /\ ~st.needs_approval)
       /\ ~(st.needs_approval /\ "status:triaged" \in lbs)

\* a request that asks to grant access to a shared drive was triaged as
\* Access and its struct is gated
C10_Witness ==
  /\ gate.stage = "built"
  /\ "grant access to a shared drive" \in gate.text
  /\ gate.triage.category = "Access"
  /\ gate.struct.risk_level = "L2"
  /\ "status:pending-approval" \in SeqToSet(gate.struct.labels_to_add)

\* ====================================================== the proposal guard
\* _build_answer_and_actions, line 1353: the base struct of the policy gate
GuardBuildBase ==
  /\ guard.stage = "triaged"
  /\ guard' = [guard EXCEPT
                 !.stage = "built",
                 !.base = build_proposed_actions_struct(guard.triage,
                                                        guard.proposed_actions)]

\* _build_answer_and_actions, lines 1354-1356: build_proposal
GuardBuildProposal ==
  /\ guard.stage = "built"
  /\ LET bp == build_proposal(guard.use_llm, guard.api_key, guard.reply) IN
     guard' = [guard EXCEPT !.stage = "proposed",
                            !.proposal = bp.proposal,
                            !.proposal_meta = bp.meta]

\* _build_answer_and_actions, lines 1357-1364: merge_and_guard_proposed_struct
GuardMerge ==
  /\ guard.stage = "proposed"
  /\ LET m == merge_and_guard_proposed_struct(guard.base, guard.triage, "propose",
                                              guard.proposal, guard.issue_lower,
                                              guard.proposal_meta)
     IN guard' = [guard EXCEPT !.stage = "merged",
                               !.struct = m.struct,
                               !.proposal_meta = m.proposal_meta]

InitGuard ==
  /\ labels = {}
  /\ assignees = {}
  /\ comments = <<>>
  /\ audit = <<>>
  /\ returns = <<>>
  /\ effects = <<>>
  /\ run = [p \in Procs |-> IdleRun]
  /\ runsStarted = 0
  /\ envPosted = 0
  /\ gate = GateIdle
  /\ guard \in GuardInputs
  /\ synth = SynthIdle
  /\ retr = RetrIdle
  /\ cache = CacheIdle
  /\ rank = RankIdle
  /\ prop = PropIdle

NextGuard ==
  /\ GuardBuildBase \/ GuardBuildProposal \/ GuardMerge
  /\ UNCHANGED <<tracker, gate, synth, retr, cache, rank, prop>>

SpecGuard == InitGuard /\ [][NextGuard]_vars

\* the generator's summary reached the guard: the reply is a JSON object that
\* build_proposal accepted, with a summary that is not blank
SummaryProposed ==
  /\ guard.use_llm /\ guard.api_key
  /\ guard.reply.kind = "dict"
  /\ guard.reply.comment_summary.t = "str"
  /\ TextLen(guard.reply.comment_summary.v) <= 300
  /\ guard.reply.assignees.t \in {"missing", "list"}
  /\ \E k \in 1..Len(guard.reply.comment_summary.v) :
       guard.reply.comment_summary.v[k] # " "

\* C11: whatever the generator replied (policy keys, labels and assignees
\* included), the merged struct has the risk_level, needs_approval,
\* approval_role_required, auto_execute, assignees and labels_to_add that the
\* policy gate derives from the triage; its comment_summary differs from the
\* base struct's only when the generator's summary reached the guard and
\* validate_comment_summary accepted it, and it is then that summary, stripped.
C11_GuardLeavesPolicyUntouched ==
  guard.stage = "merged" =>
    LET out == guard.struct
        access == guard.triage.category = "Access"
    IN /\ out.risk_level = IF access THEN "L2" ELSE "L1"
       /\ out.needs_approval = access
       /\ out.approval_role_required = IF access THEN "IT Admin" ELSE "N/A"
       /\ out.auto_execute = ~access
       /\ out.assignees = <<>>
       /\ out.labels_to_add =
            <<IF access THEN "cat:Access" ELSE "cat:VPN",
              IF guard.triage.priority = "High" THEN "prio:High" ELSE "prio:Low",
              IF access THEN "status:pending-approval" ELSE "status:triaged">>
       /\ out.comment_summary # guard.base.comment_summary =>
            /\ SummaryProposed
            /\ validate_comment_summary(guard.reply.comment_summary.v,
                                        guard.issue_lower).ok
            /\ out.comment_summary = Strip(guard.reply.comment_summary.v)

\* a reply that carries policy keys, labels and an assignee was merged, and
\* only its summary was taken over
C11_Witness ==
  /\ guard.stage = "merged"
  /\ guard.triage.category = "Access"
  /\ guard.proposal.needs_approval = JFalse
  /\ guard.proposal.labels_to_add = JList(<<StatusExecuted>>)
  /\ guard.proposal.assignees = JList(<<"mallory">>)
  /\ guard.struct.comment_summary = <<"Grant access">>
  /\ guard.struct.comment_summary # guard.base.comment_summary

\* a ground of rejection is in the text: it is longer than 200 characters, or
\* holds a user id, a quoted phrase, a duration or a capitalized phrase that
\* the request does not contain
HasRejectionGround(text, issue_lower) ==
  \/ TextLen(Strip(text)) > 200
  \/ \E k \in 1..Len(text) :
       \/ text[k] \in {"u001", "U001"} /\ "u001" \notin issue_lower
       \/ text[k] = "\"Q1 Budget\"" /\ "q1 budget" \notin issue_lower
       \/ text[k] = "30 days" /\ "30 days" \notin issue_lower
       \/ text[k] = "Shared Drive" /\ "shared drive" \notin issue_lower

\* C12: when the generator's summary reached the guard and fails
\* validate_comment_summary (in particular when it is longer than the cap or
\* holds a user id, quoted phrase, duration or capitalized phrase absent from
\* the request), the merged struct keeps the comment_summary of the base
\* struct and the proposal meta holds a non-empty fallback_reason that names
\* the ground; a reply rejected earlier by build_proposal also leaves the base
\* summary and a non-empty fallback_reason.
C12_GuardRejectionRecorded ==
  guard.stage = "merged" =>
    LET cand == guard.reply.comment_summary.v
        meta == guard.proposal_meta
    IN /\ (/\ SummaryProposed
           /\ \/ ~validate_comment_summary(cand, guard.issue_lower).ok
              \/ HasRejectionGround(cand, guard.issue_lower))
          => /\ guard.struct.comment_summary = guard.base.comment_summary
             /\ Len(meta.fallback_reason) = 2
             /\ meta.fallback_reason[1] = "invalid_proposal:"
             /\ meta.fallback_reason[2] \in
                  {"comment_summary_too_long", "new_facts:user_id",
                   "new_facts:quoted_entity", "new_facts:duration",
                   "new_facts:capitalized_entity"}
       /\ (/\ guard.use_llm /\ guard.api_key
           /\ \/ guard.reply.kind \in {"raise", "notdict"}
              \/ guard.reply.comment_summary.t = "num"
              \/ guard.reply.comment_summary.t = "str" /\ TextLen(cand) > 300
              \/ guard.reply.assignees.t = "str")
          => /\ guard.struct.comment_summary = guard.base.comment_summary
             /\ meta.fallback_reason # <<>>

\* a summary quoting "Q1 Budget" was rejected for a request that does not
\* mention it
C12_Witness ==
  /\ guard.stage = "merged"
  /\ guard.proposal.comment_summary = JText(<<"Grant access", " ", "\"Q1 Budget\"">>)
  /\ "q1 budget" \notin guard.issue_lower
  /\ guard.struct.comment_summary = guard.base.comment_summary
  /\ guard.proposal_meta.fallback_reason = <<"invalid_proposal:", "new_facts:quoted_entity">>


\* ==================================================== the evidence synthesizer
\* _build_answer_and_actions, line 1321: build_intermediate
SynthBuild ==
  /\ synth.stage = "in"
  /\ LET r == build_intermediate(synth.retrieved, synth.needs_details,
                                 synth.has_explicit_error, synth.use_llm,
                                 synth.api_key, synth.reply)
     IN synth' = [synth EXCEPT !.stage = "built",
                               !.intermediate = r.intermediate, !.meta = r.meta]

\* _build_answer_and_actions, lines 1322-1350
SynthAnswer ==
  /\ synth.stage = "built"
  /\ synth' = [synth EXCEPT !.stage = "answered",
                 !.answer = BuildAnswer(synth.intermediate, synth.meta, synth.retrieved)]

\* _citations_from_intermediate called on an intermediate as it stands
\* (scripts/self_check.py, TestCitationsFromIntermediate)
SynthCite ==
  /\ synth.stage = "in"
  /\ synth.reply.kind = "dict"
  /\ synth' = [synth EXCEPT !.stage = "cited",
                 !.intermediate = synth.reply,
                 !.answer = [NoAnswer EXCEPT
                    !.citations = _citations_from_intermediate(synth.reply, synth.retrieved),
                    !.intermediate = synth.reply]]

InitSynth ==
  /\ labels = {} /\ assignees = {} /\ comments = <<>> /\ audit = <<>>
  /\ returns = <<>> /\ effects = <<>> /\ run = [p \in Procs |-> IdleRun]
  /\ runsStarted = 0 /\ envPosted = 0
  /\ gate = GateIdle /\ guard = GuardIdle
  /\ synth \in SynthInputs
  /\ retr = RetrIdle /\ cache = CacheIdle
  /\ rank = RankIdle
  /\ prop = PropIdle

NextSynth ==
  (SynthBuild \/ SynthAnswer \/ SynthCite) /\ UNCHANGED <<tracker, gate, guard, retr, cache, rank, prop>>

SpecSynth == InitSynth /\ [][NextSynth]_vars


\* ---- helpers of the synthesizer claims
CatalogIds(retrieved) == {SourceId(i) : i \in 1..Len(retrieved)}

ImperativeSteps == {"Verify VPN", "Check MFA settings"}

\* the v2 schema of the intermediate, stated against a catalog
ConformsToSchema(obj, catalog) ==
  /\ obj.kind = "dict"
  /\ SchemaKeys \subseteq obj.keys
  /\ Len(obj.evidence_bullets) \in 2..8
  /\ \A i \in 1..Len(obj.evidence_bullets) :
       LET b == obj.evidence_bullets[i] IN
       /\ b.text # ""
       /\ \/ b.source_id \in catalog
          \/ b.source_id = "N/A" /\ catalog = {}
  /\ Len(obj.summary_steps) \in 2..5
  /\ \A i \in 1..Len(obj.summary_steps) :
       LET st == obj.summary_steps[i] IN
       /\ st.step # "" /\ st.rationale # ""
       /\ SeqToSet(st.source_ids) \subseteq catalog
       /\ (catalog # {} /\ st.source_ids = <<>>) => st.step \in ImperativeSteps
  /\ obj.clarifying_question # LongQuestion
  /\ obj.confidence_level \in {"High", "Medium", "Low"}
  /\ obj.confidence_reason # <<>>

SynthDet ==
  PopNum(_deterministic_intermediate(synth.retrieved, synth.needs_details,
                                     synth.has_explicit_error))

\* C13: with LLM enrichment enabled, the intermediate build_intermediate returns
\* is the generator's object only if that object conforms to the schema against
\* the source catalog; when the object violates the schema, is no object, or
\* the call or the parse failed, the deterministic intermediate is returned
\* with used_llm false and a non-empty fallback_reason.
C13_NeverUnvalidatedIntermediate ==
  (synth.stage = "built" /\ synth.use_llm) =>
    LET conforms == ConformsToSchema(synth.reply, CatalogIds(synth.retrieved)) IN
    /\ (synth.meta.used_llm \/ synth.intermediate = synth.reply) => conforms
    /\ ~conforms =>
         /\ synth.intermediate = SynthDet
         /\ ~synth.meta.used_llm
         /\ synth.meta.fallback_reason # <<>>

\* an object naming a source id that the catalog lacks was sent back, and the
\* deterministic intermediate was returned with the reason recorded
C13_Witness ==
  /\ synth.stage = "built" /\ synth.use_llm /\ synth.api_key
  /\ Len(synth.retrieved) = 2
  /\ synth.reply.kind = "dict"
  /\ \E i \in 1..Len(synth.reply.evidence_bullets) :
       synth.reply.evidence_bullets[i].source_id = "S9"
  /\ synth.intermediate = SynthDet
  /\ ~synth.meta.used_llm
  /\ synth.meta.fallback_reason =
       <<"invalid_intermediate", "evidence_bullet_source_id_not_in_sources">>


\* the index at which a source id first occurs among the evidence bullets
FirstOccurrence(eb, sid) ==
  CHOOSE i \in 1..Len(eb) :
    /\ eb[i].source_id = sid
    /\ \A j \in 1..(i - 1) : eb[j].source_id # sid

\* C14: the citations are one per distinct evidence-bullet source id that
\* exists in the catalog S1..Sn, in the order of first occurrence, each the
\* document, section and tier of the retrieved passage of that rank; ids that
\* only summary steps name, the id N/A and ids outside the catalog give none.
C14_CitationsFromEvidenceBulletsOnly ==
  synth.stage \in {"answered", "cited"} =>
    LET eb == synth.answer.intermediate.evidence_bullets
        n == Len(synth.retrieved)
        ids == {eb[i].source_id : i \in 1..Len(eb)} \cap {"S1", "S2", "S3", "S4", "S5"}
        cited == {sid \in ids : \E i \in 1..n : SourceId(i) = sid}
        Pos(sid) == 1 + Cardinality({x \in cited :
                                       FirstOccurrence(eb, x) < FirstOccurrence(eb, sid)})
        cits == synth.answer.citations
    IN /\ Len(cits) = Cardinality(cited)
       /\ \A sid \in cited : \A i \in 1..n :
            SourceId(i) = sid =>
              /\ cits[Pos(sid)].doc = synth.retrieved[i].doc_path
              /\ cits[Pos(sid)].section = synth.retrieved[i].heading
              /\ cits[Pos(sid)].tier = synth.retrieved[i].tier

\* a validated object with bullets S2, S1, S2 and a step that alone names S3
\* was answered over three passages: two citations, rank 2 then rank 1
C14_Witness ==
  /\ synth.stage = "answered" /\ synth.meta.used_llm
  /\ Len(synth.retrieved) = 3
  /\ Len(synth.answer.intermediate.evidence_bullets) = 3
  /\ [i \in 1..3 |-> synth.answer.intermediate.evidence_bullets[i].source_id]
       = <<"S2", "S1", "S2">>
  /\ \E i \in 1..2 :
       synth.answer.intermediate.summary_steps[i].source_ids = <<"S3">>
  /\ Len(synth.answer.citations) = 2
  /\ synth.answer.citations[1].doc = synth.retrieved[2].doc_path
  /\ synth.answer.citations[2].doc = synth.retrieved[1].doc_path


\* C15: in the deterministic intermediate built from a non-empty list of
\* retrieved passages (a list of exactly one passage included) every evidence
\* bullet's source_id is an identifier of the source catalog of those passages
\* - no padding bullet tagged N/A - and every summary step's source_ids are
\* catalog identifiers.
C15_NoPaddingWhenPassagesExist ==
  (synth.stage = "built" /\ ~synth.meta.used_llm /\ synth.retrieved # <<>>) =>
    LET catalog == CatalogIds(synth.retrieved)
        eb == synth.intermediate.evidence_bullets
        ss == synth.intermediate.summary_steps
    IN /\ \A i \in 1..Len(eb) : eb[i].source_id \in catalog
       /\ \A i \in 1..Len(ss) : SeqToSet(ss[i].source_ids) \subseteq catalog


\* ============================================ retrieval and the index cache
Req(p) == retr[p]
SetReq(p, r) == retr' = [retr EXCEPT ![p] = r]

\* run.py lines 1737, 1764 and 1267: the role is resolved to its tiers, the
\* sections of those tiers are loaded, and the retriever is either keyword or
\* one of the two that use the index ("indexed": which of vector and hybrid
\* it is matters only to retrieve, and is settled there)
IdxStart(p) ==
  /\ Req(p).pc = "idle"
  /\ p = "q2" => Req("q1").pc # "idle"   \* the processes are alike: q1 starts first
  /\ \E role \in RequesterRoles, retriever \in {"keyword", "indexed"}, rebuild \in BOOLEAN :
       /\ retriever = "keyword" => ~rebuild
       /\ SetReq(p, [RetrIdleRequest EXCEPT
            !.pc = IF retriever = "keyword" THEN "retrieve" ELSE "open",
            !.role = role, !.retriever = retriever, !.rebuild = rebuild,
            !.top_k = TopK,
            !.sections = load_allowed_documents(ROLE_TIER_MAP(role), cache.docs)])
  /\ UNCHANGED cache

\* build_or_load_vector_index, lines 79-99: the key, the metadata and the
\* fingerprint of the sections; the three files are looked for and the info
\* file is read and compared
IdxOpen(p) ==
  LET r == Req(p)
      key == _acl_cache_key(r.sections, ModelName)
      present == /\ Exists(cache.files, "npz", key)
                 /\ Exists(cache.files, "meta", key)
                 /\ Exists(cache.files, "info", key)
      info == ReadFile(cache.files, "info", key)
  IN /\ r.pc = "open"
     /\ IF ~r.rebuild /\ present
        THEN IF /\ info.data.model_name = ModelName
                /\ info.data.num_sections = key.n
                /\ info.data.fingerprint = _sections_fingerprint(r.sections)
             THEN SetReq(p, [r EXCEPT !.pc = "load_npz", !.key = key,
                                      !.meta = MetaOf(r.sections), !.info = info])
             ELSE SetReq(p, [r EXCEPT !.pc = "build", !.key = key, !.meta = MetaOf(r.sections)])
        ELSE SetReq(p, [r EXCEPT !.pc = "build", !.key = key, !.meta = MetaOf(r.sections)])
     /\ UNCHANGED cache

\* lines 100-101: np.load
IdxLoadNpz(p) ==
  LET r == Req(p)
      key == r.key
  IN /\ r.pc = "load_npz"
     /\ SetReq(p, [r EXCEPT !.pc = "load_meta", !.emb = ReadFile(cache.files, "npz", key)])
     /\ UNCHANGED cache

\* lines 102-109: the metadata file is read; the index is returned when the
\* metadata has as many records as there are sections
IdxLoadMeta(p) ==
  LET r == Req(p)
      key == r.key
      meta == ReadFile(cache.files, "meta", key)
  IN /\ r.pc = "load_meta"
     /\ IF Len(meta.data) = key.n
        THEN SetReq(p, [r EXCEPT !.pc = "retrieve", !.meta = meta.data, !.hit = TRUE,
                          !.bundle = [emb |-> r.emb.data, meta |-> meta.data,
                                      info |-> r.info,
                                      builds |-> <<r.emb.build, meta.build, r.info.build>>]])
        ELSE SetReq(p, [r EXCEPT !.pc = "build", !.meta = meta.data])
     /\ UNCHANGED cache

\* lines 113-120: no section raises; else the texts are embedded and the
\* vectors saved
IdxWriteNpz(p) ==
  LET r == Req(p)
      key == r.key
      build == cache.builds + 1
  IN /\ r.pc = "build"
     /\ IF r.sections = <<>>
        THEN /\ SetReq(p, [r EXCEPT !.pc = "raised"])
             /\ UNCHANGED cache
        ELSE /\ SetReq(p, [r EXCEPT !.pc = "write_meta", !.build = build])
             /\ cache' = [cache EXCEPT
                  !.builds = build,
                  !.files = WriteFile(@, File("npz", key, build, EmbeddingsOf(r.sections)))]

\* lines 121-122
IdxWriteMeta(p) ==
  LET r == Req(p)
      key == r.key
  IN /\ r.pc = "write_meta"
     /\ SetReq(p, [r EXCEPT !.pc = "write_info"])
     /\ cache' = [cache EXCEPT !.files = WriteFile(@, File("meta", key, r.build, r.meta))]

\* lines 123-135
IdxWriteInfo(p) ==
  LET r == Req(p)
      key == r.key
      info == File("info", key, r.build,
                   [model_name |-> ModelName, num_sections |-> key.n,
                    fingerprint |-> _sections_fingerprint(r.sections),
                    tier_key |-> key.tier_key])
  IN /\ r.pc = "write_info"
     /\ SetReq(p, [r EXCEPT !.pc = "retrieve", !.info = info,
                     !.bundle = [emb |-> EmbeddingsOf(r.sections), meta |-> r.meta,
                                 info |-> info, builds |-> <<r.build, r.build, r.build>>]])
     /\ cache' = [cache EXCEPT !.files = WriteFile(@, info)]

\* the process is killed between two of its file writes
IdxInterrupt(p) ==
  /\ Req(p).pc \in {"write_meta", "write_info"}
  /\ SetReq(p, [Req(p) EXCEPT !.pc = "interrupted"])
  /\ UNCHANGED cache

\* run.py lines 1271-1280 (retrieve) and the citations of what was retrieved
IdxRetrieve(p) ==
  LET r == Req(p) IN
  /\ r.pc = "retrieve"
  /\ \E retriever \in IF r.retriever = "keyword" THEN {"keyword"} ELSE {"vector", "hybrid"} :
       LET res == retrieve(r.sections, r.top_k, retriever, r.bundle) IN
       SetReq(p, [r EXCEPT !.pc = "done", !.retriever = retriever,
                    !.scored = res.scored, !.candidates = res.candidates,
                    !.top = res.top, !.citations = _citations_from_retrieved(res.top)])
  /\ UNCHANGED cache

\* a runbook is edited: its body, its heading, or the tier directory it is in
EditDocs ==
  /\ cache.edits < MaxEdits
  /\ Req("q2").pc = "idle"   \* the edits precede the start of the second request
  /\ \E name \in {"a.md"}, file \in [tier : Tiers, heading : Headings, body : DocBodies] :
       /\ file # cache.docs[name]
       /\ Cardinality({f \in {"tier", "heading", "body"} : file[f] # cache.docs[name][f]}) = 1
       /\ cache' = [cache EXCEPT !.docs[name] = file, !.edits = @ + 1]
  /\ UNCHANGED retr

InitIndex ==
  /\ labels = {} /\ assignees = {} /\ comments = <<>> /\ audit = <<>>
  /\ returns = <<>> /\ effects = <<>> /\ run = [p \in Procs |-> IdleRun]
  /\ runsStarted = 0 /\ envPosted = 0
  /\ gate = GateIdle /\ guard = GuardIdle /\ synth = SynthIdle
  /\ retr = RetrIdle
  /\ \E docs \in InitialDocs : cache \in InitialCaches(docs)
  /\ rank = RankIdle
  /\ prop = PropIdle

NextIndex ==
  /\ \/ \E p \in IndexProcs :
          \/ IdxStart(p) \/ IdxOpen(p) \/ IdxLoadNpz(p) \/ IdxLoadMeta(p)
          \/ IdxWriteNpz(p) \/ IdxWriteMeta(p) \/ IdxWriteInfo(p)
          \/ IdxInterrupt(p) \/ IdxRetrieve(p)
     \/ EditDocs
  /\ UNCHANGED <<tracker, gate, guard, synth, rank, prop>>

SpecIndex == InitIndex /\ [][NextIndex]_vars


\* ---- helpers of the retrieval and cache claims
AllowedTiers(role) ==
  IF role = "IT Admin" THEN {"public", "internal", "restricted"}
  ELSE {"public", "internal"}

PassageTiers(passages) == {passages[i].tier : i \in 1..Len(passages)}

\* C16: tier isolation - whatever the role, the runbooks and the strategy
\* (keyword, vector, hybrid), no passage of a tier outside the tiers the role
\* allows is among the passages handed to scoring, the candidates (for vector
\* and hybrid those of the cached index metadata), the ranked top-K or the
\* citations; the sections are filtered by tier before anything is scored.
C16_TierIsolation ==
  \A p \in IndexProcs :
    LET r == retr[p]
        allowed == AllowedTiers(r.role)
    IN r.pc # "idle" =>
         /\ PassageTiers(r.sections) \subseteq allowed
         /\ {s.tier : s \in r.scored} \subseteq allowed
         /\ PassageTiers(r.meta) \subseteq allowed
         /\ PassageTiers(r.bundle.meta) \subseteq allowed
         /\ PassageTiers(r.bundle.emb) \subseteq allowed
         /\ PassageTiers(r.candidates) \subseteq allowed
         /\ PassageTiers(r.top) \subseteq allowed
         /\ PassageTiers(r.citations) \subseteq allowed

\* an Employee was answered by the hybrid strategy from a cached index while
\* an index holding a restricted passage lay in the same cache directory
C16_Witness ==
  \E p \in IndexProcs :
    /\ retr[p].pc = "done" /\ retr[p].role = "Employee"
    /\ retr[p].retriever = "hybrid" /\ retr[p].hit
    /\ retr[p].candidates # <<>> /\ retr[p].scored # {} /\ retr[p].citations # <<>>
    /\ cache.docs["b.md"].tier = "restricted"
    /\ \E f \in cache.files : f.kind = "meta" /\ "restricted" \in PassageTiers(f.data)


\* the scope of a request: the tiers present in its sections, the embedding
\* model and the number of sections
ScopeOf(r) == <<PassageTiers(r.sections), ModelName, Len(r.sections)>>

Indexed == {p \in IndexProcs : retr[p].pc \notin {"idle", "open"} /\ retr[p].retriever # "keyword"}

\* C17: cache isolation - requests of different scopes never use the same
\* cache entry: their keys differ, every metadata file under the key of a
\* request holds passages of exactly the tiers of that request's scope, and an
\* index loaded for the scope {public} holds no metadata and no vector of a
\* restricted passage.
C17_CacheIsolation ==
  /\ \A p, q \in Indexed : ScopeOf(retr[p]) # ScopeOf(retr[q]) => retr[p].key # retr[q].key
  /\ \A p \in Indexed : \A f \in cache.files :
       (f.kind \in {"npz", "meta"} /\ f.key = retr[p].key) =>
         PassageTiers(f.data) = PassageTiers(retr[p].sections)
  /\ \A p \in Indexed :
       (retr[p].hit /\ PassageTiers(retr[p].sections) = {"public"}) =>
         /\ "restricted" \notin PassageTiers(retr[p].bundle.meta)
         /\ "restricted" \notin PassageTiers(retr[p].bundle.emb)

\* the scope {public} loaded its index from the cache after the scope
\* {public, restricted} had built its own over the same runbooks
C17_Witness ==
  \E p, q \in IndexProcs :
    /\ retr[p].pc = "done" /\ retr[p].hit
    /\ PassageTiers(retr[p].sections) = {"public"}
    /\ retr[q].pc = "done" /\ retr[q].retriever # "keyword" /\ retr[q].build # 0
    /\ PassageTiers(retr[q].sections) = {"public", "restricted"}
    /\ retr[p].key # retr[q].key
    /\ \E f, g \in cache.files :
         f.kind = "meta" /\ g.kind = "meta" /\ f.key = retr[p].key /\ g.key = retr[q].key


\* C18: cache invalidation - after any edit of a runbook of the scope (body
\* text at any position, heading, or tier, the number of passages unchanged)
\* the fingerprint differs, so an index loaded from the cache without the
\* rebuild flag is never one built before the edit: its metadata and its
\* vectors are those of the sections as they are now.
C18_EditInvalidatesCache ==
  \A p \in IndexProcs :
    (retr[p].hit /\ ~retr[p].rebuild) =>
      /\ retr[p].bundle.meta = MetaOf(retr[p].sections)
      /\ retr[p].bundle.emb = EmbeddingsOf(retr[p].sections)


\* C19: atomic publication - with builders and readers of one scope running
\* together, or a builder interrupted between its file writes, the vectors,
\* the metadata and the fingerprint a reader loads come from one build, and
\* the vectors and the metadata records are equally many.
C19_AtomicPublication ==
  \A p \in IndexProcs :
    retr[p].hit =>
      /\ retr[p].bundle.builds[1] = retr[p].bundle.builds[2]
      /\ retr[p].bundle.builds[2] = retr[p].bundle.builds[3]
      /\ Len(retr[p].bundle.emb) = Len(retr[p].bundle.meta)


\* ---- the confidence of the answer
Answered == synth.stage = "answered"

IsQuarter(conf) == conf.den # 0 /\ 4 * conf.num = conf.den

BandOfNumber(conf) ==
  IF 100 * conf.num >= 70 * conf.den THEN "High"
  ELSE IF 100 * conf.num >= 45 * conf.den THEN "Medium"
  ELSE "Low"

AllScoresZero(retrieved) == \A i \in 1..Len(retrieved) : retrieved[i].score = 0

\* what holds of every answer, with or without passages, with or without
\* LLM enrichment
ConfidenceFloor ==
  Answered =>
    /\ (synth.retrieved # <<>> /\ AllScoresZero(synth.retrieved)) =>
         /\ IsQuarter(synth.answer.confidence)
         /\ synth.answer.intermediate.confidence_level = "Low"
    /\ synth.retrieved = <<>> =>
         /\ synth.answer.citations = <<>>
         /\ IsQuarter(synth.answer.confidence)
         /\ synth.answer.intermediate.confidence_level = "Low"
    /\ (synth.retrieved = <<>> \/ AllScoresZero(synth.retrieved)) =>
         synth.answer.intermediate.confidence_level = BandOfNumber(synth.answer.confidence)

\* C20 as stated: confidence floor - with at least one passage and a maximum
\* score of exactly 0 the reported confidence is 0.25 and the level Low; with
\* no passage the answer has no citation, confidence 0.25, level Low and a
\* non-empty clarifying question; in both cases the level is the band of the
\* reported number.
C20_ConfidenceFloor ==
  /\ ConfidenceFloor
  /\ (Answered /\ synth.retrieved = <<>>) =>
       synth.answer.intermediate.clarifying_question # ""

\* C20 amended: as above, the non-empty clarifying question being promised
\* only when the intermediate is the deterministic one (LLM enrichment off,
\* or fallen back with used_llm false).
C20_ConfidenceFloorDeterministicQuestion ==
  /\ ConfidenceFloor
  /\ (Answered /\ synth.retrieved = <<>> /\ ~synth.answer.intermediate_meta.used_llm) =>
       synth.answer.intermediate.clarifying_question # ""

\* no passage was retrieved, the generator's object was rejected, and the
\* answer built on the deterministic intermediate has no citation, 0.25, Low
\* and the fixed clarifying question
C20_Witness ==
  /\ Answered /\ synth.retrieved = <<>>
  /\ synth.use_llm /\ synth.api_key /\ synth.reply.kind = "dict"
  /\ ~synth.answer.intermediate_meta.used_llm
  /\ synth.answer.citations = <<>>
  /\ synth.answer.confidence = Frac(1, 4)
  /\ synth.answer.intermediate.confidence_level = "Low"
  /\ synth.answer.intermediate.clarifying_question
       = "What system/app and exact error message are you seeing?"


\* ===================================================== the remaining claims
\* C21: when the text of a GitHub issue carries an explicit Urgency field with
\* a recognized value (critical, high, medium or low) the priority of the
\* triage is exactly that value, whatever priority keywords the text holds.
C21_ExplicitUrgencyIsAuthoritative ==
  (gate.stage \in {"triaged", "built"} /\ gate.source = "github_issue") =>
    /\ gate.urgency = "critical" => gate.triage.priority = "Critical"
    /\ gate.urgency = "high" => gate.triage.priority = "High"
    /\ gate.urgency = "medium" => gate.triage.priority = "Medium"
    /\ gate.urgency = "low" => gate.triage.priority = "Low"


\* ------------------------------------------------ hybrid fusion of a pool
\* one call of retrieve(..., retriever_type="hybrid", hybrid_alpha=alpha) on
\* the pool; the calls differ in alpha only
RankHybrid(alpha) ==
  /\ rank.pool # <<>>
  /\ \A r \in rank.ranked : r.retriever_type = "hybrid" /\ r.hybrid_alpha # alpha
  /\ rank' = [rank EXCEPT !.ranked =
                @ \cup {hybrid_rank(rank.pool, rank.top_k, alpha, rank.intent)}]

InitFusion ==
  /\ labels = {}
  /\ assignees = {}
  /\ comments = <<>>
  /\ audit = <<>>
  /\ returns = <<>>
  /\ effects = <<>>
  /\ run = [p \in Procs |-> IdleRun]
  /\ runsStarted = 0
  /\ envPosted = 0
  /\ gate = GateIdle
  /\ guard = GuardIdle
  /\ synth = SynthIdle
  /\ retr = RetrIdle
  /\ cache = CacheIdle
  /\ prop = PropIdle
  /\ \E n \in 1..MaxPool, intent \in BOOLEAN :
       \E h \in [1..n -> Styles], k \in [1..n -> KeywordScores],
          v \in [1..n -> VectorScores] :
         /\ NearestFirst(n, v)
         /\ rank = [pool |-> Pool(n, h, k, v, [i \in 1..n |-> "a.md"]),
                    intent |-> intent, top_k |-> TopK, ranked |-> {}]

NextFusion ==
  /\ \E alpha \in Alphas : RankHybrid(alpha)
  /\ UNCHANGED <<tracker, gate, guard, synth, retr, cache, prop>>

SpecFusion == InitFusion /\ [][NextFusion]_vars

\* the place of passage idx in a ranking, 1 being the best
PlaceOf(ranking, idx) ==
  CHOOSE k \in 1..Len(ranking.candidates) : ranking.candidates[k].idx = idx

\* the passages of the pool with the highest keyword score
TopKeyword(pool) ==
  {i \in 1..Len(pool) : pool[i].keyword_score = KwMax(pool)}

RankedAt(alpha) ==
  {r \in rank.ranked : r.retriever_type = "hybrid" /\ r.hybrid_alpha = alpha}

\* the passages no other passage of the pool has a larger intent bias than
TopBias(pool) ==
  {i \in 1..Len(pool) : \A j \in 1..Len(pool) :
     _section_troubleshoot_bias(pool[j]) <= _section_troubleshoot_bias(pool[i])}

\* C22 as stated: on one pool and one request, a passage with the highest
\* normalized keyword score has at alpha = 1 a place no lower than its place
\* at alpha = 0, the intent bias being added after the fusion.
C22_FusionMonotone ==
  \A one \in RankedAt(10), zero \in RankedAt(0) :
    \A p \in TopKeyword(rank.pool) :
      PlaceOf(one, p) <= PlaceOf(zero, p)

\* C22 amended: the same, for a passage that no passage of the pool exceeds
\* in intent bias, and for every passage when the request has no
\* troubleshooting intent.
C22_FusionMonotoneUnderEqualBias ==
  \A one \in RankedAt(10), zero \in RankedAt(0) :
    \A p \in TopKeyword(rank.pool) :
      (~rank.intent \/ p \in TopBias(rank.pool)) =>
        PlaceOf(one, p) <= PlaceOf(zero, p)

\* a request with troubleshooting intent, passages of different bias, and a
\* passage of top keyword score and top bias that alpha = 1 moves up
C22_Witness ==
  /\ rank.intent
  /\ \E i \in 1..Len(rank.pool) : i \notin TopBias(rank.pool)
  /\ \E one \in RankedAt(10), zero \in RankedAt(0) :
       \E p \in TopKeyword(rank.pool) \cap TopBias(rank.pool) :
         PlaceOf(one, p) < PlaceOf(zero, p)


\* ------------------------------------------- keyword ranking of a corpus
\* one call of retrieve(..., retriever_type="keyword") on the sections
RankKeyword ==
  /\ rank.pool # <<>>
  /\ rank.ranked = {}
  /\ rank' = [rank EXCEPT !.ranked = {keyword_rank(rank.pool, rank.top_k, rank.intent)}]

InitKeyword ==
  /\ labels = {}
  /\ assignees = {}
  /\ comments = <<>>
  /\ audit = <<>>
  /\ returns = <<>>
  /\ effects = <<>>
  /\ run = [p \in Procs |-> IdleRun]
  /\ runsStarted = 0
  /\ envPosted = 0
  /\ gate = GateIdle
  /\ guard = GuardIdle
  /\ synth = SynthIdle
  /\ retr = RetrIdle
  /\ cache = CacheIdle
  /\ prop = PropIdle
  /\ \E n \in 1..MaxPool, intent \in BOOLEAN, top_k \in 1..MaxTopK :
       \E h \in [1..n -> Styles], k \in [1..n -> KeywordScores],
          d \in [1..n -> {"a.md", "b.md"}] :
         /\ FileByFile(n, d)
         /\ rank = [pool |-> Pool(n, h, k, [i \in 1..n |-> 0], d),
                    intent |-> intent, top_k |-> top_k, ranked |-> {}]

NextKeyword ==
  /\ RankKeyword
  /\ UNCHANGED <<tracker, gate, guard, synth, retr, cache, prop>>

SpecKeyword == InitKeyword /\ [][NextKeyword]_vars

Idxs(passages) == [i \in 1..Len(passages) |-> passages[i].idx]

\* the final score of passage idx in a ranking
ScoreOf(ranking, idx) == ranking.candidates[PlaceOf(ranking, idx)].final_score

\* the passages ordered by score, best first
SortedByScore(ranking) ==
  /\ Len(ranking.candidates) = Len(rank.pool)
  /\ \A i \in 1..Len(rank.pool) : \E k \in 1..Len(ranking.candidates) :
       ranking.candidates[k].idx = i
  /\ \A k \in 1..Len(ranking.candidates), l \in 1..Len(ranking.candidates) :
       k < l => ranking.candidates[k].final_score >= ranking.candidates[l].final_score

\* every one of the top_k best has score 0 and there are more passages
FallbackDue(ranking) ==
  /\ Len(rank.pool) > rank.top_k
  /\ \A k \in 1..rank.top_k : ranking.candidates[k].final_score = 0

DocsOf(passages) == {passages[i].doc_path : i \in 1..Len(passages)}

\* one passage per document, no document twice, up to top_k of them
OnePerDocument(ranking) ==
  /\ \A i \in 1..Len(ranking.top), j \in 1..Len(ranking.top) :
       i # j => ranking.top[i].doc_path # ranking.top[j].doc_path
  /\ Len(ranking.top) =
       (IF Cardinality(DocsOf(rank.pool)) < rank.top_k
        THEN Cardinality(DocsOf(rank.pool)) ELSE rank.top_k)

\* C24 as stated: the keyword strategy sorts the passages by score, best
\* first, and returns the top_k best; when all of these have score 0 and
\* there are more than top_k passages it returns instead one passage per
\* document in the order the documents were loaded, up to top_k. The result
\* is never empty, and holds no document twice when the fallback is taken.
C24_DiversityFallback ==
  \A r \in rank.ranked : r.retriever_type = "keyword" =>
    /\ SortedByScore(r)
    /\ r.top # <<>>
    /\ ~FallbackDue(r) => r.top = Take(r.candidates, rank.top_k)
    /\ FallbackDue(r) =>
         /\ OnePerDocument(r)
         /\ \A i \in 1..Len(r.top), j \in 1..Len(r.top) :
              i < j => r.top[i].idx < r.top[j].idx

\* C24 amended: the same, the passages of the fallback being in ranked order
\* (score descending, equal scores in the order of loading), each the best
\* ranked of its document.
C24_DiversityFallbackInRankedOrder ==
  \A r \in rank.ranked : r.retriever_type = "keyword" =>
    /\ SortedByScore(r)
    /\ \A k \in 1..Len(r.candidates), l \in 1..Len(r.candidates) :
         (k < l /\ r.candidates[k].final_score = r.candidates[l].final_score)
           => r.candidates[k].idx < r.candidates[l].idx
    /\ r.top # <<>>
    /\ ~FallbackDue(r) => r.top = Take(r.candidates, rank.top_k)
    /\ FallbackDue(r) =>
         /\ OnePerDocument(r)
         /\ \A i \in 1..Len(r.top), j \in 1..Len(r.top) :
              i < j => PlaceOf(r, r.top[i].idx) < PlaceOf(r, r.top[j].idx)
         /\ \A i \in 1..Len(r.top) : \A k \in 1..Len(r.candidates) :
              r.candidates[k].doc_path = r.top[i].doc_path
                => PlaceOf(r, r.top[i].idx) <= k

\* the fallback taken on a request with troubleshooting intent, two documents
\* returned, the one loaded later first
C24_Witness ==
  \E r \in rank.ranked :
    /\ r.retriever_type = "keyword" /\ rank.intent /\ FallbackDue(r)
    /\ Len(r.top) = 2
    /\ r.top[1].idx > r.top[2].idx


\* ------------------------------------------------------- execute stage, II
\* the four required fields of a struct are present and well-typed
WellTyped(block) ==
  /\ block.kind = "dict"
  /\ block.risk_level \in {JStr("L1"), JStr("L2")}
  /\ block.needs_approval \in {JTrue, JFalse}
  /\ block.approval_role_required \in {JStr("IT Admin"), JStr("N/A")}
  /\ block.labels_to_add.t = "list" /\ block.labels_to_add.items # <<>>

\* C23: a plan comment whose struct misses one of the four required fields
\* or holds an ill-typed one (a risk level outside L1/L2, a needs_approval
\* that is no boolean, an unknown role, no list of labels) is unparsable: the
\* run that finds it as the latest plan decides invalid_plan_format, returns
\* it, evaluates no approval against it and writes nothing.
C23_IllTypedPlanIsInvalid ==
  \A v \in RunViews :
    \A i \in 1..v.snap :
      (LatestPlanAt(Snapshot(v), i) /\ ~WellTyped(Snapshot(v)[i].body.block))
      => /\ v.decided = "invalid_plan_format"
         /\ Reported(v, "invalid_plan_format")
         /\ v.done => v.out.approval_actor_login = ""
         /\ NoMutation(v)


\* ------------------------------------------------------------ propose stage
\* run.py _write_audit_and_maybe_github (lines 1599-1703) in github mode,
\* stage propose, on the struct _build_answer_and_actions built; the run ends
\* with one audit record, tagged with the negated count of propose runs
stages == <<gate, guard, synth, retr, cache, rank>>

\* the structs build_proposed_actions_struct builds: Access, anything else
ProposedStructs == {StructL2, StructL1}

\* variant: add_labels leaves the labels of the removed prefixes in place
KeepPrefixed(existing) == existing

\* github_bot.add_labels, lines 131-136: the existing labels that do not
\* start with a removed prefix
StripPrefixed(existing) == {name \in existing : ~StartsWithStatus(name)}

\* _finalize_audit at line 1703
ProposeFinish(execution_result, executed_actions) ==
  /\ audit' = _finalize_audit(audit, 0 - prop.id,
                [NewAuditRecord EXCEPT !.execution_result = execution_result,
                                       !.executed_actions = executed_actions])
  /\ prop' = [PropIdle EXCEPT !.id = prop.id]

\* except Exception (lines 1697-1701)
ProposeRaise == ProposeFinish("error", <<>>)

ProposeContinue(r) == prop' = r /\ audit' = audit

\* main(): the issue was opened or edited, the propose stage runs
ProposeStart(struct) ==
  /\ prop.pc = "idle"
  /\ prop.id < MaxProposeRuns
  /\ prop' = [PropIdle EXCEPT !.pc = "post_plan", !.id = prop.id + 1, !.struct = struct]
  /\ UNCHANGED <<tracker, stages>>

\* line 1685: the plan comment; line 1686: the labels of the struct
ProposePostPlan ==
  /\ prop.pc = "post_plan"
  /\ \E ok \in BOOLEAN :
       IF ~ok THEN ProposeRaise /\ UNCHANGED <<comments, effects>>
       ELSE /\ comments' = Append(comments,
                 Comment(BotLogin,
                         Body(<<_plan_title(Truthy(Get(prop.struct.needs_approval)))>>,
                              prop.struct)))
            /\ effects' = Append(effects, [run |-> 0 - prop.id, op |-> "post_plan"])
            /\ ProposeContinue([prop EXCEPT
                 !.pc = "add_labels_get",
                 !.labels_arg = SeqToSet(Get(prop.struct.labels_to_add).items)])
  /\ UNCHANGED <<labels, assignees, returns, run, runsStarted, envPosted, stages>>

\* github_bot.add_labels, lines 127-137, called at line 1688 or line 1457
ProposeAddLabelsGet ==
  /\ prop.pc = "add_labels_get"
  /\ \E ok \in BOOLEAN :
       IF ~ok THEN ProposeRaise
       ELSE ProposeContinue([prop EXCEPT
              !.pc = "add_labels_patch",
              !.merged = StripPrefixed(labels) \cup prop.labels_arg])
  /\ UNCHANGED <<labels, assignees, comments, returns, effects, run, runsStarted,
                 envPosted, stages>>

\* github_bot.add_labels, line 138; then lines 1689-1694 or 1458-1462
ProposeAddLabelsPatch ==
  /\ prop.pc = "add_labels_patch"
  /\ \E ok \in BOOLEAN :
       IF ~ok THEN ProposeRaise /\ UNCHANGED <<labels, effects>>
       ELSE /\ labels' = prop.merged
            /\ effects' = Append(effects, [run |-> 0 - prop.id, op |-> "add_labels"])
            /\ IF prop.phase = "apply"
               THEN ProposeContinue([prop EXCEPT !.pc = "post_executed",
                                                 !.executed = <<"add_labels">>])
               ELSE IF ~Truthy(Get(prop.struct.needs_approval))
               THEN ProposeContinue([prop EXCEPT !.pc = "apply_get_issue_labels",
                                                 !.phase = "apply"])
               ELSE ProposeFinish("propose_only", <<>>)
  /\ UNCHANGED <<assignees, comments, returns, run, runsStarted, envPosted, stages>>

\* _apply_approved_actions, lines 1450-1454, called at line 1690
ProposeApplyGetIssueLabels ==
  /\ prop.pc = "apply_get_issue_labels"
  /\ \E ok \in BOOLEAN :
       IF ~ok THEN ProposeRaise
       ELSE IF AlreadyExecuted(labels)
       THEN ProposeFinish("propose_and_execute", <<>>)
       ELSE ProposeContinue([prop EXCEPT
              !.pc = "add_labels_get",
              !.labels_arg = {lb \in SeqToSet(Get(prop.struct.labels_to_add).items) :
                                ~StartsWithStatus(lb)} \cup {StatusExecuted}])
  /\ UNCHANGED <<labels, assignees, comments, returns, effects, run, runsStarted,
                 envPosted, stages>>

\* _apply_approved_actions, lines 1462-1466 (the struct of the propose stage
\* names no assignee), then lines 1691-1692
ProposePostExecuted ==
  /\ prop.pc = "post_executed"
  /\ \E ok \in BOOLEAN :
       IF ~ok THEN ProposeRaise /\ UNCHANGED <<comments, effects>>
       ELSE /\ comments' = Append(comments,
                 Comment(BotLogin,
                         Body(<<"## Executed actions", "\n">> \o prop.executed, NoBlock)))
            /\ effects' = Append(effects, [run |-> 0 - prop.id, op |-> "post_executed"])
            /\ ProposeFinish("propose_and_execute", prop.executed)
  /\ UNCHANGED <<labels, assignees, returns, run, runsStarted, envPosted, stages>>

\* the IT Admin or an Engineer approves the plan that is the newest comment
PipelineComments ==
  {Comment("Alice", Body(<<"APPROVE">>, NoBlock)),
   Comment("bob", Body(<<"Approve">>, NoBlock))}

PostApproval(c) ==
  /\ comments # <<>>
  /\ HasPlanMarker(comments[Len(comments)].body)
  /\ PostUserComment(c)

InitPipeline ==
  /\ labels \in InitialLabels
  /\ assignees = {}
  /\ comments = <<>>
  /\ audit = <<>>
  /\ returns = <<>>
  /\ effects = <<>>
  /\ run = [p \in Procs |-> IdleRun]
  /\ runsStarted = 0
  /\ envPosted = 0
  /\ gate = GateIdle
  /\ guard = GuardIdle
  /\ synth = SynthIdle
  /\ retr = RetrIdle
  /\ cache = CacheIdle
  /\ rank = RankIdle
  /\ prop = PropIdle

NextPipeline ==
  \/ \E struct \in ProposedStructs : ProposeStart(struct)
  \/ ProposePostPlan
  \/ ProposeAddLabelsGet
  \/ ProposeAddLabelsPatch
  \/ ProposeApplyGetIssueLabels
  \/ ProposePostExecuted
  \/ \E p \in {"d1"} : Start(p)
  \/ \E p \in {"d1"} : GetIssueLabels(p)
  \/ \E p \in {"d1"} : ListComments(p)
  \/ \E p \in {"d1"} : PostRejection(p)
  \/ \E p \in {"d1"} : ApplyGetIssueLabels(p)
  \/ \E p \in {"d1"} : AddLabelsGet(p)
  \/ \E p \in {"d1"} : AddLabelsPatch(p)
  \/ \E p \in {"d1"} : PostExecuted(p)
  \/ \E c \in PipelineComments : PostApproval(c)

SpecPipeline == InitPipeline /\ [][NextPipeline]_vars


\* ---------------------------------------------------- claims on the labels
StatusLabels(ls) == {l \in ls : StartsWithStatus(l)}

\* this step is a label write the tracker accepted
LabelWrite ==
  /\ Len(effects') = Len(effects) + 1
  /\ effects'[Len(effects')].op = "add_labels"

\* the write is made by _apply_approved_actions: by an execute run (its id
\* is positive) or by the end of a propose run
WriteOfApply ==
  effects'[Len(effects')].run > 0 \/ prop.phase = "apply"

\* C25: every label write of the propose or the execute stage replaces the
\* status labels of the issue by exactly one status label, so the issue never
\* carries two; a write of _apply_approved_actions leaves status:executed,
\* whatever status label the plan lists, and a write of the propose stage
\* leaves the status label of its struct.
C25_StatusLabelReplaced ==
  /\ [](Cardinality(StatusLabels(labels)) <= 1)
  /\ [][LabelWrite =>
          /\ Cardinality(StatusLabels(labels')) = 1
          /\ WriteOfApply => StatusLabels(labels') = {StatusExecuted}
          /\ ~WriteOfApply =>
               StatusLabels(labels') =
                 StatusLabels(SeqToSet(Get(prop.struct.labels_to_add).items))]_vars

\* the propose stage wrote status:pending-approval with its plan, which lists
\* that label, and an execute run then wrote status:executed in its place
C25_Witness ==
  /\ StatusLabels(labels) = {StatusExecuted}
  /\ \E i, j \in 1..Len(effects) :
       /\ i < j
       /\ effects[i].op = "add_labels" /\ effects[i].run < 0
       /\ effects[j].op = "add_labels" /\ effects[j].run > 0
  /\ \E k \in 1..Len(comments) :
       /\ HasPlanMarker(comments[k].body)
       /\ StatusPending \in SeqToSet(comments[k].body.block.labels_to_add.items)


\* the pipeline on an issue that an earlier execution marked
InitMarked == InitPipeline /\ StatusExecuted \in labels

SpecMarked == InitMarked /\ [][NextPipeline]_vars

\* C26: once the issue carries status:executed no later run of the propose or
\* of the execute stage, in any order, removes the marker, writes the labels
\* or the assignees of a plan, or posts an 'Executed actions' comment.  The
\* issue is marked from the start, so every run is a later run.
C26_MarkerMonotone ==
  /\ StatusExecuted \in labels
  /\ \A k \in 1..Len(effects) :
       effects[k].op \notin {"add_labels", "add_assignees", "post_executed"}


\* C27: when a finished execute run has written the labels of an approved
\* plan, and with them the executed marker the issue carries, it has applied
\* every action of the plan: it has also added the plan's assignees, if the
\* plan names any, and posted the 'Executed actions' comment.
C27_MarkerImpliesComplete ==
  \A v \in RunViews :
    (v.done /\ StatusExecuted \in labels /\ Effects(v.id, "add_labels") # {}) =>
      /\ Effects(v.id, "post_executed") # {}
      /\ \A i \in 1..v.snap :
           (/\ LatestPlanAt(Snapshot(v), i)
            /\ Snapshot(v)[i].body.block.assignees.t = "list"
            /\ Snapshot(v)[i].body.block.assignees.items # <<>>)
           => Effects(v.id, "add_assignees") # {}

\* the label and assignee writes the tracker accepted from a run, in order
AppliedBy(id) ==
  LET mine == SelectSeq(effects, LAMBDA e : e.run = id /\ e.op \in {"add_labels", "add_assignees"})
  IN [k \in 1..Len(mine) |-> mine[k].op]

\* C28: the executed_actions of the audit record of an execute run is the
\* list of the label and assignee writes the tracker accepted from that run,
\* also when a later tracker call of the run raised and the record says
\* "error".
C28_AuditFidelity ==
  \A i \in 1..Len(audit) :
    audit[i].run > 0 => audit[i].executed_actions = AppliedBy(audit[i].run)


\* a comment the bot posted that is no plan: a rejection, or the report of
\* an execution
BotNotice(c) == c.login = BotLogin /\ c.body.block.kind = "absent"

\* C29: for a run given a list whose latest plan parses and needs approval,
\* the newest exact APPROVE after that plan alone decides: when its author is
\* not in the directory or has a role the plan's risk level does not accept,
\* the run decides the rejection of that author, returns it, and writes
\* nothing, whatever older APPROVE comments follow the plan; the approver it
\* reports is that author.  A comment of the bot that rejects or reports an
\* execution is never taken for the plan or for the approval, for any list
\* the issue comes to have.
C29_NewestApproveDecides ==
  /\ \A v \in RunViews : \A i \in 1..v.snap : \A a \in 1..v.snap :
       LET cs == Snapshot(v)
           struct == _parse_proposed_plan_struct_from_comment(cs[i].body)
       IN (/\ LatestPlanAt(cs, i) /\ LatestApproveAt(cs, i, a)
           /\ struct # None /\ NeedsApproval(struct)) =>
            LET code == RejectionFor(cs[a].login, struct) IN
            /\ code # "" =>
                 /\ v.decided = code
                 /\ Reported(v, code)
                 /\ NoMutation(v)
                 /\ v.done => v.out.approval_status = "rejected"
            /\ (v.done /\ ~v.raised) => v.out.approval_actor_login = cs[a].login
  /\ \A n \in 1..Len(comments) : \A k \in 1..n :
       BotNotice(comments[k]) =>
         LET found == _find_latest_proposed_plan_and_approve(SubSeq(comments, 1, n))
         IN found.plan # k /\ found.approve # k

\* a run was rejected for the APPROVE of a user outside the directory that
\* follows the APPROVE of the IT Admin, and a later run, given in addition
\* the bot's rejection comment (which holds the word APPROVE), was rejected
\* for the same user
C29_Witness ==
  \E v, w \in RunViews :
    /\ v.done /\ v.out.execution_result = "approver_not_in_directory"
    /\ w.done /\ w.out.execution_result = "approver_not_in_directory"
    /\ v.snap < w.snap
    /\ BotNotice(comments[w.snap])
    /\ \E k \in 1..Len(comments[w.snap].body.toks) : comments[w.snap].body.toks[k] = "APPROVE"
    /\ \E i, a, b \in 1..v.snap :
         /\ i < a /\ a < b
         /\ LatestPlanAt(Snapshot(v), i)
         /\ ExactApprove(comments[a].body) /\ comments[a].login = "Alice"
         /\ LatestApproveAt(Snapshot(v), i, b) /\ comments[b].login = "mallory"


\* ------------------------------------------- execute runs, one after another
MaxRuns == 3

\* a further delivery of the execute webhook, once the run before it returned
Redeliver(p) ==
  /\ run[p].pc = "idle"
  /\ runsStarted < MaxRuns
  /\ runsStarted' = runsStarted + 1
  /\ run' = [run EXCEPT ![p] = [IdleRun EXCEPT !.pc = "get_issue_labels",
                                               !.id = runsStarted + 1]]
  /\ UNCHANGED <<labels, assignees, comments, audit, returns, effects, envPosted, pipeline>>

\* users comment between two runs: an APPROVE from outside the directory, or
\* the APPROVE of the IT Admin
LiveComments ==
  {Comment("mallory", Body(<<"APPROVE">>, NoBlock)),
   Comment("Alice", Body(<<"APPROVE">>, NoBlock))}

PostBetweenRuns(c) ==
  /\ \A p \in Procs : run[p].pc = "idle"
  /\ PostUserComment(c)

\* a step of the execute run in progress
RunStep(p) ==
  \/ GetIssueLabels(p)
  \/ ListComments(p)
  \/ PostRejection(p)
  \/ ApplyGetIssueLabels(p)
  \/ AddLabelsGet(p)
  \/ AddLabelsPatch(p)
  \/ PostExecuted(p)

\* the propose stage has posted its plan for an Access request
InitLive ==
  /\ labels = {}
  /\ assignees = {}
  /\ comments = <<Comment(BotLogin, Body(<<PlanTitlePending>>, StructL2))>>
  /\ audit = <<>>
  /\ returns = <<>>
  /\ effects = <<>>
  /\ run = [p \in Procs |-> IdleRun]
  /\ runsStarted = 0
  /\ envPosted = 0
  /\ gate = GateIdle
  /\ guard = GuardIdle
  /\ synth = SynthIdle
  /\ retr = RetrIdle
  /\ cache = CacheIdle
  /\ rank = RankIdle
  /\ prop = PropIdle

NextLive ==
  \/ Redeliver("d1")
  \/ RunStep("d1")
  \/ \E c \in LiveComments : PostBetweenRuns(c)

\* a run that was started goes on until it returns: the process is a
\* sequential program whose tracker calls return or raise (urlopen has a
\* timeout of 30 s); nothing obliges a user to comment or a webhook to come
SpecLive == InitLive /\ [][NextLive]_vars /\ WF_vars(RunStep("d1"))

\* the run with this id has returned
ReturnedAs(id, results) ==
  \E k \in 1..Len(returns) :
    /\ returns[k].run = id
    /\ returns[k].raised \/ returns[k].out.execution_result \in results

\* C30: a rejection is not final.  Whatever runs were rejected or found no
\* approval before, a run that starts on the L2 plan when the APPROVE of an
\* IT Admin is the newest after the plan and the issue is not marked returns
\* at last, and returns success with the labels written and status:executed
\* set unless a tracker call raised; a run that starts on the marked issue
\* returns at last, and returns already_executed_noop unless its label read
\* raised.
C30_ExecutionEventuallyReached ==
  \A id \in 1..MaxRuns :
    /\ (/\ run["d1"].id = id /\ run["d1"].pc = "get_issue_labels"
        /\ StatusExecuted \notin labels /\ ValidatedApproval(comments))
         ~> (/\ ReturnedAs(id, {"success"})
             /\ \A k \in 1..Len(returns) :
                  (returns[k].run = id /\ ~returns[k].raised) =>
                    /\ StatusExecuted \in labels
                    /\ Effects(id, "add_labels") # {})
    /\ (/\ run["d1"].id = id /\ run["d1"].pc = "get_issue_labels"
        /\ StatusExecuted \in labels)
         ~> ReturnedAs(id, {"already_executed_noop"})

\* a run was rejected for the APPROVE of a user outside the directory, the
\* IT Admin then approved, the next run returned success and the run after
\* it already_executed_noop
C30_Witness ==
  /\ Len(returns) = 3
  /\ returns[1].out.execution_result = "approver_not_in_directory"
  /\ returns[2].out.execution_result = "success"
  /\ returns[2].out.executed_actions = <<"add_labels">>
  /\ returns[3].out.execution_result = "already_executed_noop"
  /\ StatusExecuted \in labels

====
